---- MODULE Spec2Model ----
(***************************************************************************)
(* A model of bevy_openxr: the session state machine of OpenXRStruct       *)
(* (bevy_openxr_core/src/lib.rs) and the frame loop of XRSwapchain         *)
(* (bevy_openxr_core/src/swapchain.rs), each against a scripted runtime,   *)
(* and the systems that drive them (systems.rs, render_hook_systems.rs).   *)
(*                                                                         *)
(*   Spec       the session state machine under any batches of events      *)
(*   SpecTicks  the session state machine, one session state per poll,     *)
(*              with the log of the polls                                  *)
(*   SpecFrame  the swapchain's operations in any order                    *)
(*   SpecFormat the format negotiation of XRSwapchain::new on any list of  *)
(*              format codes                                               *)
(*   SpecSchedule  the systems of app.update() in the order of their       *)
(*              stages, tick after tick                                    *)
(***************************************************************************)
EXTENDS Integers, Sequences, FiniteSets, TLC

\* ------------------------------------------------------------------ bounds
\* Longest queue of poll results the runtime holds between two polls.
MaxQueue == 2
\* Number of events the runtime queues in SpecExit, where what an early
\* return leaves behind is followed into the next poll.
MaxDeferred == 3
\* Number of XRState events one hand_visibility_system run reads.
MaxStateEvents == 1
\* Number of polls SpecTicks follows.
MaxTicks == 4
\* Number of frames the runtime paces (wait_frame results it gives).
MaxTime == 3
\* Most swapchain images the runtime enumerates.
MaxImages == 2
\* Most images the model lets the application hold acquired at once.
MaxHeld == 2

\* const VIEW_COUNT (swapchain.rs:39)
VIEW_COUNT == 2

\* ------------------------------------------------------------- state
VARIABLES
    \* the runtime: the results instance.poll_event will give, oldest first
    xr_event_queue,
    \* OpenXRStruct
    session_state,
    previous_frame_state,
    \* the handle_openxr_events call that has just run (NoPoll after any
    \* other step): what it started from and what it did
    poll_call,
    \* SpecTicks: one entry per handle_openxr_events call so far
    poll_log,
    \* SpecLifecycle, the runtime's session: the openxr::SessionState it
    \* reported last, and whether the session is running (begun, not ended)
    xr_session_state,
    xr_session_running,
    \* XRSwapchain
    next_frame_state,
    waited,
    buffers,
    environment_blend_mode,
    \* the runtime's side of the frame loop
    xr_frame_open,     \* a frame was begun and not yet ended
    xr_time,           \* the predicted display time of the next wait_frame
    xr_images_held,    \* images acquired and not yet released
    \* the XRSwapchain call that has just run: what it started from, what
    \* it returned and the runtime calls it made, in order
    frame_call,
    \* XRSwapchain.hand_trackers is Some
    hand_trackers,
    \* the schedule of app.update(): the stage that runs next, and the
    \* operations the systems of the current tick have made so far
    stage,
    tick_ops,
    \* resources: HandPoseState, XRConfigurationState.last_view_surface,
    \* WgpuRenderState.should_render
    hand_pose,
    last_view_surface,
    should_render,
    \* the openxr_event_system call that has just run
    sys_call,
    \* Events<XRState>: the events sent during the update before the current
    \* one and those sent during the current one
    state_events,
    \* format negotiation: what session.enumerate_swapchain_formats() gives,
    \* and one record per run of XRSwapchain::new on it
    swapchain_formats,
    format_log,
    \* XRWindowTextureNode of each node: self.last_view_surface,
    \* self.descriptor.size, and the node's output slot WINDOW_TEXTURE
    node_last_view_surface,
    descriptor,
    output_slots,
    \* the render resource context: the textures created and not removed,
    \* each with the node that created it, and how many were ever created
    textures,
    textures_created,
    \* the XRWindowTextureNode::update call that has just run
    update_call,
    \* xr_runner: where it is, its locals frame and durations (the length),
    \* Events<AppExit>, and the calls of WGPUOpenXR::destroy so far
    runner_pc,
    frame,
    durations,
    app_exit_events,
    destroy_calls,
    \* the hand tracking plugin: the resource HandTrackingState, the joint
    \* boxes of each hand (Transform and Visible.is_visible of each), and the
    \* hand_system or hand_visibility_system call that has just run, and the
    \* last XRState event other than SkipFrame that hand_visibility_system
    \* has read so far
    hand_tracking_state,
    hand_boxes,
    hand_call,
    last_state_event,
    \* XRConfigurationState.texture_view_ids and .next_swap_chain_index, the
    \* field resource_ids of XRSwapchainNode, its output slot, and the update
    \* call of the node that has just run
    texture_view_ids,
    next_swap_chain_index,
    resource_ids,
    swapchain_output,
    node_call

sessionVars == <<xr_event_queue, session_state, previous_frame_state,
                 poll_call>>
lifecycleVars == <<xr_session_state, xr_session_running>>
tickVars == <<poll_log, lifecycleVars>>
frameVars == <<next_frame_state, waited, buffers, environment_blend_mode,
               xr_frame_open, xr_time, xr_images_held, frame_call>>

poseVars == <<hand_trackers>>
systemVars == <<stage, tick_ops, hand_pose, last_view_surface, should_render,
                sys_call, state_events>>
formatVars == <<swapchain_formats, format_log>>
\* XRWindowTextureNode, one per node of the render graph it replaces, and
\* the render resource context's textures
textureVars == <<node_last_view_surface, descriptor, output_slots, textures,
                 textures_created, update_call>>
runnerVars == <<runner_pc, frame, durations, app_exit_events, destroy_calls>>
handVars == <<hand_tracking_state, hand_boxes, hand_call, last_state_event>>
nodeVars == <<texture_view_ids, next_swap_chain_index, resource_ids,
              swapchain_output, node_call>>
appVars == <<textureVars, runnerVars, handVars, nodeVars>>
restVars == <<formatVars, appVars>>
otherVars == <<systemVars, restVars>>

vars == <<sessionVars, tickVars, frameVars, poseVars, otherVars>>

\* ------------------------------------------------------------- values
\* event.rs: enum XRState
XRState == {"Paused", "Running", "RunningFocused", "Exiting", "SkipFrame"}

\* Option<T>
None == <<>>
Some(x) == <<x>>

\* openxr::SessionState as reported by SessionStateChanged; "UNKNOWN" is the
\* state that reaches the `_ => {}` arm (lib.rs:201).
RuntimeSessionStates ==
    {"IDLE", "READY", "SYNCHRONIZED", "VISIBLE", "FOCUSED", "STOPPING",
     "LOSS_PENDING", "EXITING", "UNKNOWN"}

\* openxr::Event kinds other than SessionStateChanged (lib.rs:204-231);
\* "Unknown" is the event that reaches the final `_` arm.
OtherEventKinds ==
    {"InstanceLossPending", "EventsLost", "ReferenceSpaceChangePending",
     "PerfSettingsEXT", "VisibilityMaskChangedKHR", "InteractionProfileChanged",
     "MainSessionVisibilityChangedEXTX", "Unknown"}

\* One result of instance.poll_event (lib.rs:131): Ok(Some(event)) or Err.
\* call_ok is the result the runtime gives to the session call the event's
\* arm makes (session.begin for READY, session.end for STOPPING).
SessionStateChanged(s, ok) ==
    [kind |-> "SessionStateChanged", state |-> s, call_ok |-> ok]
OtherEvent(k) == [kind |-> k, state |-> "-", call_ok |-> TRUE]
PollError == [kind |-> "PollError", state |-> "-", call_ok |-> TRUE]

SessionStateResults ==
    {SessionStateChanged(s, TRUE) : s \in RuntimeSessionStates}
    \cup {SessionStateChanged(s, FALSE) : s \in {"READY", "STOPPING"}}

PollResults ==
    SessionStateResults \cup {OtherEvent(k) : k \in OtherEventKinds}
    \cup {PollError}

\* ------------------------------------------------- OpenXRStruct (lib.rs)
\* The part of OpenXRStruct and of the locals of handle_openxr_events that
\* the loop works on: m = [session_state, previous_frame_state,
\* state_changed, ctl, xr_calls], ctl being where control goes after the
\* event: "continue" (next poll), "return" (early return) or "panic"
\* (unwrap), and xr_calls the calls made on handles.session so far.

change_state_AlwaysFlags(m, state) ==
    [m EXCEPT !.previous_frame_state =
                    IF m.session_state # state THEN m.session_state ELSE @,
              !.session_state = state,
              !.state_changed = TRUE]

change_state_LatchesExiting(m, state) ==
    IF m.session_state # state /\ m.session_state # "Exiting"
    THEN [m EXCEPT !.previous_frame_state = m.session_state,
                   !.session_state = state,
                   !.state_changed = TRUE]
    ELSE m

change_state_AlwaysRecords(m, state) ==
    [m EXCEPT !.previous_frame_state = m.session_state,
              !.session_state = state,
              !.state_changed = @ \/ m.session_state # state]

\* change_state (lib.rs:109-118)
change_state(m, state) ==
    IF m.session_state # state
    THEN [m EXCEPT !.previous_frame_state = m.session_state,
                   !.session_state = state,
                   !.state_changed = TRUE]
    ELSE m

get_changed_state_Always(m) == Some(m.session_state)

\* get_changed_state (lib.rs:120-126)
get_changed_state(m) ==
    IF m.state_changed THEN Some(m.session_state) ELSE None

SessionStateArm_IdleRuns(m, e) ==
    CASE e.state \in {"READY", "STOPPING"} /\ ~e.call_ok ->
            [m EXCEPT !.ctl = "panic"]
      [] e.state \in {"READY", "VISIBLE", "SYNCHRONIZED", "IDLE"} ->
            change_state(m, "Running")
      [] e.state = "STOPPING" -> change_state(m, "Paused")
      [] e.state \in {"EXITING", "LOSS_PENDING"} ->
            [change_state(m, "Exiting") EXCEPT !.ctl = "return"]
      [] e.state = "FOCUSED" -> change_state(m, "RunningFocused")
      [] OTHER -> m

SessionStateArm_ExitContinues(m, e) ==
    CASE e.state \in {"READY", "STOPPING"} /\ ~e.call_ok ->
            [m EXCEPT !.ctl = "panic"]
      [] e.state \in {"READY", "VISIBLE", "SYNCHRONIZED"} ->
            change_state(m, "Running")
      [] e.state \in {"STOPPING", "IDLE"} -> change_state(m, "Paused")
      [] e.state \in {"EXITING", "LOSS_PENDING"} -> change_state(m, "Exiting")
      [] e.state = "FOCUSED" -> change_state(m, "RunningFocused")
      [] OTHER -> m

\* m after a call of the session's method (begin or end) that the runtime
\* answers with ok: the call is made, and unwrap() panics on Err
SessionCall(m, method, ok) ==
    [m EXCEPT !.xr_calls = Append(@, method),
              !.ctl = IF ok THEN @ ELSE "panic"]


SessionStateArm_SynchronizedBegins(m, e) ==
    CASE e.state \in {"READY", "SYNCHRONIZED"} ->
            IF e.call_ok
            THEN change_state(SessionCall(m, "begin", TRUE), "Running")
            ELSE SessionCall(m, "begin", FALSE)
      [] e.state = "STOPPING" ->
            IF e.call_ok
            THEN change_state(SessionCall(m, "end", TRUE), "Paused")
            ELSE SessionCall(m, "end", FALSE)
      [] e.state \in {"EXITING", "LOSS_PENDING"} ->
            [change_state(m, "Exiting") EXCEPT !.ctl = "return"]
      [] e.state = "VISIBLE" -> change_state(m, "Running")
      [] e.state = "FOCUSED" -> change_state(m, "RunningFocused")
      [] e.state = "IDLE" -> change_state(m, "Paused")
      [] OTHER -> m
\* the arms of `match e.state()` (lib.rs:136-202)
SessionStateArm(m, e) ==
    CASE e.state = "READY" ->
            \* session.begin(..).unwrap(), then change_state
            IF e.call_ok
            THEN change_state(SessionCall(m, "begin", TRUE), "Running")
            ELSE SessionCall(m, "begin", FALSE)
      [] e.state = "STOPPING" ->
            \* session.end().unwrap(), then change_state
            IF e.call_ok
            THEN change_state(SessionCall(m, "end", TRUE), "Paused")
            ELSE SessionCall(m, "end", FALSE)
      [] e.state \in {"EXITING", "LOSS_PENDING"} ->
            [change_state(m, "Exiting") EXCEPT !.ctl = "return"]
      [] e.state = "VISIBLE" -> change_state(m, "Running")
      [] e.state = "FOCUSED" -> change_state(m, "RunningFocused")
      [] e.state = "IDLE" -> change_state(m, "Paused")
      [] e.state = "SYNCHRONIZED" -> change_state(m, "Running")
      [] OTHER -> m

EventArm_EventsLostPauses(m, e) ==
    CASE e.kind = "SessionStateChanged" -> SessionStateArm(m, e)
      [] e.kind = "InstanceLossPending" ->
            [change_state(m, "Exiting") EXCEPT !.ctl = "return"]
      [] e.kind = "EventsLost" -> SessionCall(change_state(m, "Paused"),
                                              "end", TRUE)
      [] OTHER -> m

\* the arms of `match event` (lib.rs:132-232)
EventArm(m, e) ==
    CASE e.kind = "SessionStateChanged" -> SessionStateArm(m, e)
      [] e.kind = "InstanceLossPending" ->
            [change_state(m, "Exiting") EXCEPT !.ctl = "return"]
      [] OTHER -> m

\* the `while let Some(event) = poll_event(..).unwrap()` loop (lib.rs:131-233)
\* run on the queue q: the locals and fields when control leaves the loop,
\* and what is left in the runtime's queue.
RECURSIVE PollLoop_ErrorEndsLoop(_, _)
PollLoop_ErrorEndsLoop(m, q) ==
    IF q = <<>>
    THEN [m |-> m, queue |-> q]
    ELSE IF Head(q).kind = "PollError"
    THEN [m |-> m, queue |-> Tail(q)]
    ELSE LET m2 == EventArm(m, Head(q)) IN
         IF m2.ctl = "continue"
         THEN PollLoop_ErrorEndsLoop(m2, Tail(q))
         ELSE [m |-> m2, queue |-> Tail(q)]

RECURSIVE PollLoop_KeepsUnmatched(_, _)
PollLoop_KeepsUnmatched(m, q) ==
    IF q = <<>>
    THEN [m |-> m, queue |-> q]
    ELSE IF Head(q).kind = "PollError"
    THEN [m |-> [m EXCEPT !.ctl = "panic"], queue |-> Tail(q)]
    ELSE LET m2 == EventArm(m, Head(q)) IN
         IF m2 = m
         THEN [m |-> m, queue |-> q]
         ELSE IF m2.ctl = "continue"
         THEN PollLoop_KeepsUnmatched(m2, Tail(q))
         ELSE [m |-> m2, queue |-> Tail(q)]
RECURSIVE PollLoop(_, _)
PollLoop(m, q) ==
    IF q = <<>>
    THEN [m |-> m, queue |-> q]
    ELSE IF Head(q).kind = "PollError"
    THEN [m |-> [m EXCEPT !.ctl = "panic"], queue |-> Tail(q)]
    ELSE LET m2 == EventArm(m, Head(q)) IN
         IF m2.ctl = "continue"
         THEN PollLoop(m2, Tail(q))
         ELSE [m |-> m2, queue |-> Tail(q)]

idle_sleep_Always(m) == TRUE

idle_sleep_UnlessChanged(m) == m.session_state = "Paused" /\ ~m.state_changed

\* the `match self.session_state` after the loop (lib.rs:235-238): whether
\* std::thread::sleep runs
idle_sleep(m) == m.session_state = "Paused"

NoPoll ==
    [status |-> "none", batch |-> <<>>, start_state |-> "-",
     result |-> None, slept |-> FALSE, xr_calls |-> <<>>]

InitSession_Running ==
    /\ xr_event_queue = <<>>
    /\ session_state = "Running"
    /\ previous_frame_state = "Paused"
    /\ poll_call = NoPoll

\* OpenXRStruct::new (lib.rs:94-107)
InitSession ==
    /\ xr_event_queue = <<>>
    /\ session_state = "Paused"
    /\ previous_frame_state = "Paused"
    /\ poll_call = NoPoll

\* handle_openxr_events (lib.rs:128-241): its effect on OpenXRStruct and on
\* the runtime's queue, and the record of the call.  status is "returned"
\* (the return after the loop), "returned_exit" (an early return) or
\* "panicked" (an unwrap failed: the program is gone).
HandleOpenxrEvents ==
    /\ poll_call.status # "panicked"
    /\ LET m0 == [session_state |-> session_state,
                  previous_frame_state |-> previous_frame_state,
                  state_changed |-> FALSE,
                  ctl |-> "continue",
                  xr_calls |-> <<>>]
           r == PollLoop(m0, xr_event_queue)
       IN /\ xr_event_queue' = r.queue
          /\ session_state' = r.m.session_state
          /\ previous_frame_state' = r.m.previous_frame_state
          /\ poll_call' =
                [batch |-> xr_event_queue,
                 start_state |-> session_state,
                 status |-> CASE r.m.ctl = "panic" -> "panicked"
                              [] r.m.ctl = "return" -> "returned_exit"
                              [] OTHER -> "returned",
                 result |-> IF r.m.ctl = "panic" THEN None
                            ELSE get_changed_state(r.m),
                 slept |-> r.m.ctl = "continue" /\ idle_sleep(r.m),
                 xr_calls |-> r.m.xr_calls]

\* --------------------------------------------------------------- Spec
\* the runtime queues one more poll result
RuntimePost ==
    /\ poll_call.status # "panicked"
    /\ Len(xr_event_queue) < MaxQueue
    /\ \E e \in PollResults : xr_event_queue' = Append(xr_event_queue, e)
    /\ poll_call' = NoPoll
    /\ UNCHANGED <<session_state, previous_frame_state>>
    /\ UNCHANGED <<tickVars, frameVars, poseVars, otherVars>>

\* the application polls
handle_openxr_events ==
    /\ HandleOpenxrEvents
    /\ UNCHANGED <<tickVars, frameVars, poseVars, otherVars>>

\* ----------------------------------------------------------- SpecTicks
\* the runtime reports exactly one session state before each poll
TickPost ==
    /\ poll_call.status # "panicked"
    /\ xr_event_queue = <<>>
    /\ Len(poll_log) < MaxTicks
    /\ \E e \in SessionStateResults : xr_event_queue' = <<e>>
    /\ poll_call' = NoPoll
    /\ UNCHANGED <<session_state, previous_frame_state>>
    /\ UNCHANGED <<tickVars, frameVars, poseVars, otherVars>>

\* the application polls; the poll is logged
TickPoll ==
    /\ xr_event_queue # <<>>
    /\ HandleOpenxrEvents
    /\ poll_log' = Append(poll_log, [batch |-> poll_call'.batch,
                                     status |-> poll_call'.status,
                                     result |-> poll_call'.result])
    /\ UNCHANGED <<lifecycleVars, frameVars, poseVars, otherVars>>


\* ------------------------------------------------------- SpecLifecycle
\* is_running (lib.rs:243-245)
is_running(state) == state = "Running" \/ state = "RunningFocused"

\* The session states the runtime can report after state s in the lifecycle
\* of a session: IDLE, READY, SYNCHRONIZED, VISIBLE, FOCUSED, back through
\* VISIBLE and SYNCHRONIZED to STOPPING and IDLE, and again.
LifecycleNext(s) ==
    CASE s = "UNKNOWN" -> {"IDLE"}
      [] s = "IDLE" -> {"READY"}
      [] s = "READY" -> {"SYNCHRONIZED"}
      [] s = "SYNCHRONIZED" -> {"VISIBLE", "STOPPING"}
      [] s = "VISIBLE" -> {"FOCUSED", "SYNCHRONIZED"}
      [] s = "FOCUSED" -> {"VISIBLE"}
      [] s = "STOPPING" -> {"IDLE"}
      [] OTHER -> {}

\* whether the runtime's session runs after the calls the application made
\* on it: xrBeginSession starts it, xrEndSession stops it
RECURSIVE SessionRunningAfter(_, _)
SessionRunningAfter(running, calls) ==
    IF calls = <<>> THEN running
    ELSE SessionRunningAfter(Head(calls) = "begin", Tail(calls))

\* a session was created and nothing has been reported about it
InitLifecycle ==
    /\ xr_session_state = "UNKNOWN"
    /\ xr_session_running = FALSE

\* the events that tell of no session state and end no poll
LifecycleOtherEvents ==
    {OtherEvent(k) : k \in OtherEventKinds \ {"InstanceLossPending"}}

\* the runtime moves the session to its next state and queues the event;
\* the call the application answers READY or STOPPING with may fail
LifecyclePost ==
    /\ poll_call.status # "panicked"
    /\ Len(xr_event_queue) < MaxQueue
    /\ \E s \in LifecycleNext(xr_session_state) :
          /\ xr_session_state' = s
          /\ \E e \in {r \in SessionStateResults : r.state = s} :
                xr_event_queue' = Append(xr_event_queue, e)
    /\ poll_call' = NoPoll
    /\ UNCHANGED <<session_state, previous_frame_state>>
    /\ UNCHANGED <<poll_log, xr_session_running>>
    /\ UNCHANGED <<frameVars, poseVars, otherVars>>

\* the runtime queues an event that is not about the session state
LifecycleOtherPost ==
    /\ poll_call.status # "panicked"
    /\ Len(xr_event_queue) < MaxQueue
    /\ \E e \in LifecycleOtherEvents :
          xr_event_queue' = Append(xr_event_queue, e)
    /\ poll_call' = NoPoll
    /\ UNCHANGED <<session_state, previous_frame_state>>
    /\ UNCHANGED <<tickVars, frameVars, poseVars, otherVars>>

\* the calls of a poll that the runtime answered with success: all of them,
\* or all but the last if the poll panicked on the answer to a call
SucceededCalls(call) ==
    IF call.status = "panicked" /\ call.xr_calls # <<>>
       /\ call.batch[Len(call.batch) - Len(xr_event_queue')].kind
             = "SessionStateChanged"
    THEN SubSeq(call.xr_calls, 1, Len(call.xr_calls) - 1)
    ELSE call.xr_calls

\* the application polls; the calls it makes on the session take effect
LifecyclePoll ==
    /\ HandleOpenxrEvents
    /\ xr_session_running' =
          SessionRunningAfter(xr_session_running,
                              SucceededCalls(poll_call'))
    /\ UNCHANGED <<poll_log, xr_session_state>>
    /\ UNCHANGED <<frameVars, poseVars, otherVars>>
\* ---------------------------------------------- XRSwapchain (swapchain.rs)
\* openxr::FrameState, as far as the swapchain reads it
FrameState(t, sr) == [predicted_display_time |-> t, should_render |-> sr]

\* The results handles.frame_waiter.wait() can give (swapchain.rs:218):
\* Err, or Ok(frame_state) with either should_render.
WaitResults ==
    {[ok |-> FALSE, should_render |-> FALSE],
     [ok |-> TRUE, should_render |-> FALSE],
     [ok |-> TRUE, should_render |-> TRUE]}

\* openxr::EnvironmentBlendMode values the runtime may enumerate first
BlendModes == {"OPAQUE", "ADDITIVE"}

\* One call to the runtime: its name, and where the call has them the
\* display time, blend mode and number of layers it passes.  frame_was_open
\* tells whether a begun frame was still waiting for its end_frame when the
\* call arrived.
XrCall(name, t, blend, layers, open) ==
    [call |-> name, time |-> t, blend |-> blend, layers |-> layers,
     frame_was_open |-> open]
XrPlain(name) == XrCall(name, -1, "-", -1, FALSE)

NoFrameCall ==
    [op |-> "none", status |-> "none",
     start_next_frame_state |-> None, start_waited |-> FALSE,
     start_buffers |-> <<>>,
     state |-> "-", index |-> -1, views |-> <<>>, xr_calls |-> <<>>,
     wait |-> None, hands |-> None, transforms |-> None]

\* the record of a call that starts now
FrameCallNow(op) ==
    [NoFrameCall EXCEPT !.op = op, !.status = "returned",
                        !.start_next_frame_state = next_frame_state,
                        !.start_waited = waited,
                        !.start_buffers = buffers]

\* Framebuffer (swapchain.rs:416-420)
Framebuffer(texture, texture_view) ==
    [texture |-> texture, texture_view |-> texture_view]

\* XRSwapchain::new (swapchain.rs:130-195): one Framebuffer per enumerated
\* image, each with its texture and a view of it; the first enumerated blend
\* mode; no frame state, not waited.  n images, blend mode b.
InitSwapchain(n, b) ==
    /\ buffers = [i \in 1..n |-> Framebuffer(i, Some(i))]
    /\ environment_blend_mode = b
    /\ next_frame_state = None
    /\ waited = FALSE
    /\ xr_frame_open = FALSE
    /\ xr_time = 1
    /\ xr_images_held = 0
    /\ frame_call = NoFrameCall

\* get_next_swapchain_image_index (swapchain.rs:201-208); the runtime
\* chooses the image.
GetNextSwapchainImageIndex ==
    /\ frame_call.status # "panicked"
    /\ xr_images_held < MaxHeld
    /\ \E image_index \in 0..(Len(buffers) - 1) :
          frame_call' =
             [FrameCallNow("get_next_swapchain_image_index") EXCEPT
                 !.index = image_index,
                 !.xr_calls = <<XrPlain("acquire_image"),
                                XrPlain("wait_image")>>]
    /\ xr_images_held' = xr_images_held + 1
    /\ waited' = TRUE
    /\ UNCHANGED <<next_frame_state, buffers, environment_blend_mode,
                   xr_frame_open, xr_time>>

\* What handles.frame_waiter.wait() gave to a prepare_update that called it
\* at runtime time t: the Result, and the FrameState if it is Ok.
WaitGave(w, t) ==
    [ok |-> w.ok,
     frame_state |-> IF w.ok THEN Some(FrameState(t, w.should_render))
                     ELSE None]

\* The branches of prepare_update: the value returned, the next_frame_state
\* and the runtime's frame left behind, the runtime calls made, and whether a
\* wait_frame succeeded (the runtime's time moves on).
AlreadyPrepared_WaitsAgain(nfs, open) ==
    [state |-> "Running", next_frame_state |-> nfs, xr_frame_open |-> TRUE,
     waits |-> 0,
     xr_calls |-> <<XrPlain("wait_frame"),
                    XrCall("begin_frame", -1, "-", -1, open)>>]

\* `if let Some(_) = self.next_frame_state` (swapchain.rs:213-216)
AlreadyPrepared(nfs, open) ==
    [state |-> "Running", next_frame_state |-> nfs, xr_frame_open |-> open,
     waits |-> 0, xr_calls |-> <<>>]

WaitFailed_BeginsAnyway(open) ==
    [state |-> "Paused", next_frame_state |-> None, xr_frame_open |-> TRUE,
     waits |-> 0,
     xr_calls |-> <<XrPlain("wait_frame"),
                    XrCall("begin_frame", -1, "-", -1, open)>>]

\* `Err(_) => return XRState::Paused` (swapchain.rs:218-224)
WaitFailed(open) ==
    [state |-> "Paused", next_frame_state |-> None, xr_frame_open |-> open,
     waits |-> 0, xr_calls |-> <<XrPlain("wait_frame")>>]

FrameSkipped_NotEnded(frame_state, blend, open) ==
    [state |-> "Paused", next_frame_state |-> None, xr_frame_open |-> TRUE,
     waits |-> 1,
     xr_calls |-> <<XrPlain("wait_frame"),
                    XrCall("begin_frame", -1, "-", -1, open)>>]


FrameSkipped_ReturnsSkipFrame(frame_state, blend, open) ==
    [state |-> "SkipFrame", next_frame_state |-> None,
     xr_frame_open |-> FALSE, waits |-> 1,
     xr_calls |-> <<XrPlain("wait_frame"),
                    XrCall("begin_frame", -1, "-", -1, open),
                    XrCall("end_frame", frame_state.predicted_display_time,
                           blend, 0, TRUE)>>]
\* frame_stream.begin(), then `if !frame_state.should_render`: end the frame
\* with no layers and return Paused (swapchain.rs:227-241)
FrameSkipped(frame_state, blend, open) ==
    [state |-> "Paused", next_frame_state |-> None, xr_frame_open |-> FALSE,
     waits |-> 1,
     xr_calls |-> <<XrPlain("wait_frame"),
                    XrCall("begin_frame", -1, "-", -1, open),
                    XrCall("end_frame", frame_state.predicted_display_time,
                           blend, 0, TRUE)>>]

FrameStored_NotStored(frame_state, open) ==
    [state |-> "Running", next_frame_state |-> None, xr_frame_open |-> TRUE,
     waits |-> 1,
     xr_calls |-> <<XrPlain("wait_frame"),
                    XrCall("begin_frame", -1, "-", -1, open)>>]

\* frame_stream.begin(), then store the frame state and return Running
\* (swapchain.rs:227, 243-245)
FrameStored(frame_state, open) ==
    [state |-> "Running", next_frame_state |-> Some(frame_state),
     xr_frame_open |-> TRUE, waits |-> 1,
     xr_calls |-> <<XrPlain("wait_frame"),
                    XrCall("begin_frame", -1, "-", -1, open)>>]

\* prepare_update (swapchain.rs:211-246) on next_frame_state nfs, when
\* wait_frame would give w at runtime time t
PrepareOutcome(nfs, w, t, blend, open) ==
    IF nfs # None THEN AlreadyPrepared(nfs, open)
    ELSE IF ~w.ok THEN WaitFailed(open)
    ELSE IF ~w.should_render
    THEN FrameSkipped(FrameState(t, w.should_render), blend, open)
    ELSE FrameStored(FrameState(t, w.should_render), open)

\* prepare_update (swapchain.rs:211-246)
PrepareUpdate ==
    /\ frame_call.status # "panicked"
    /\ next_frame_state = None => xr_time <= MaxTime
    /\ \E w \in WaitResults :
          LET o == PrepareOutcome(next_frame_state, w, xr_time,
                                  environment_blend_mode, xr_frame_open)
          IN /\ next_frame_state' = o.next_frame_state
             /\ xr_frame_open' = o.xr_frame_open
             /\ xr_time' = xr_time + o.waits
             /\ frame_call' =
                   [FrameCallNow("prepare_update") EXCEPT
                       !.state = o.state,
                       !.xr_calls = o.xr_calls,
                       !.wait = IF next_frame_state # None THEN None
                                ELSE Some(WaitGave(w, xr_time))]
    /\ UNCHANGED <<waited, buffers, environment_blend_mode, xr_images_held>>

FinalizeCalls_EndsFirst(nfst, blend, open) ==
    <<XrCall("locate_views", nfst.predicted_display_time, "-", -1, FALSE),
      XrCall("end_frame", nfst.predicted_display_time, blend, 1, open),
      XrPlain("release_image")>>

\* the runtime calls of a finalize_update that found a frame state and an
\* acquired image: release_image, locate_views, end_frame with one
\* projection layer (swapchain.rs:327-379)
FinalizeCalls(nfst, blend, open) ==
    <<XrPlain("release_image"),
      XrCall("locate_views", nfst.predicted_display_time, "-", -1, FALSE),
      XrCall("end_frame", nfst.predicted_display_time, blend, 1, open)>>


FinalizeUpdate_ReleasesUnacquired ==
    /\ frame_call.status # "panicked"
    /\ IF next_frame_state = None
       THEN /\ frame_call' = FrameCallNow("finalize_update")
            /\ UNCHANGED <<next_frame_state, waited, xr_frame_open,
                           xr_images_held>>
       ELSE LET nfst == next_frame_state[1] IN
            /\ next_frame_state' = None
            /\ waited' = FALSE
            /\ xr_images_held' = xr_images_held - 1
            /\ xr_frame_open' = FALSE
            /\ frame_call' =
                  [FrameCallNow("finalize_update") EXCEPT
                      !.xr_calls =
                         FinalizeCalls(nfst, environment_blend_mode,
                                       xr_frame_open)]
    /\ UNCHANGED <<buffers, environment_blend_mode, xr_time>>
\* finalize_update (swapchain.rs:312-380)
FinalizeUpdate ==
    /\ frame_call.status # "panicked"
    /\ IF next_frame_state = None
       THEN \* "NO NEXT FRAME": swapchain.rs:314-320
            /\ frame_call' = FrameCallNow("finalize_update")
            /\ UNCHANGED <<next_frame_state, waited, xr_frame_open,
                           xr_images_held>>
       ELSE LET nfst == next_frame_state[1] IN
            \* self.next_frame_state.take(): swapchain.rs:314
            /\ next_frame_state' = None
            /\ IF ~waited
               THEN \* swapchain.rs:322-324
                    /\ frame_call' = FrameCallNow("finalize_update")
                    /\ UNCHANGED <<waited, xr_frame_open, xr_images_held>>
               ELSE \* swapchain.rs:327-379
                    /\ waited' = FALSE
                    /\ xr_images_held' = xr_images_held - 1
                    /\ xr_frame_open' = FALSE
                    /\ frame_call' =
                          [FrameCallNow("finalize_update") EXCEPT
                              !.xr_calls =
                                 FinalizeCalls(nfst, environment_blend_mode,
                                               xr_frame_open)]
    /\ UNCHANGED <<buffers, environment_blend_mode, xr_time>>

\* the buffers before index k have given their view away
ViewsTakenBefore(k) ==
    [i \in 1..Len(buffers) |->
        IF i < k THEN Framebuffer(buffers[i].texture, None) ELSE buffers[i]]

\* the first buffer without a view, Len(buffers) + 1 if each has one
FirstWithoutView ==
    LET without == {i \in 1..Len(buffers) : buffers[i].texture_view = None}
    IN IF without = {} THEN Len(buffers) + 1
       ELSE CHOOSE i \in without : \A j \in without : i <= j

TakeTextureViews_Keeps ==
    /\ frame_call.status # "panicked"
    /\ frame_call' =
          [FrameCallNow("take_texture_views") EXCEPT
              !.views = [i \in 1..(FirstWithoutView - 1) |->
                            buffers[i].texture_view[1]]]
    /\ UNCHANGED <<buffers, next_frame_state, waited, environment_blend_mode,
                   xr_frame_open, xr_time, xr_images_held>>

\* take_texture_views (swapchain.rs:382-388): buf.texture_view.take() on
\* each buffer in turn, unwrap() on what it gave
TakeTextureViews ==
    /\ frame_call.status # "panicked"
    /\ LET k == FirstWithoutView IN
       /\ buffers' = ViewsTakenBefore(k)
       /\ frame_call' =
             IF k > Len(buffers)
             THEN [FrameCallNow("take_texture_views") EXCEPT
                      !.views = [i \in 1..Len(buffers) |->
                                    buffers[i].texture_view[1]]]
             ELSE [FrameCallNow("take_texture_views") EXCEPT
                      !.status = "panicked"]
    /\ UNCHANGED <<next_frame_state, waited, environment_blend_mode,
                   xr_frame_open, xr_time, xr_images_held>>

\* ------------------------------------------------------------- poses
\* What the runtime locates for a hand: the joint locations of that tracker
\* at the time asked for.
JointLocations(tracker, t) == [tracker |-> tracker, time |-> t]

\* The results space.locate_hand_joints(tracker, t) can give: Err,
\* Ok(None) (the hand is not tracked) or Ok(Some(joint locations)).
LocateHandResults(tracker, t) ==
    {[ok |-> FALSE, joints |-> None],
     [ok |-> TRUE, joints |-> None],
     [ok |-> TRUE, joints |-> Some(JointLocations(tracker, t))]}

\* HandPoseState { left, right } as get_hand_positions builds it
\* (swapchain.rs:269-272)
HandPoseState(hand_l, hand_r) == [left |-> hand_l, right |-> hand_r]

\* The predicted display time of a stored frame state, -1 without one.
TimeOf(nfs) == IF nfs = None THEN -1 ELSE nfs[1].predicted_display_time

LocateHandCall(tracker, t) ==
    [XrCall("locate_hand_joints", t, "-", -1, FALSE) EXCEPT !.blend = tracker]

HandPositions_LocatesWithoutFrame(nfs, trackers, l, r) ==
    IF ~trackers
    THEN [status |-> "returned", hands |-> None, xr_calls |-> <<>>]
    ELSE [status |-> "returned",
          hands |-> Some(HandPoseState(l.joints, r.joints)),
          xr_calls |-> <<LocateHandCall("tracker_l", TimeOf(nfs)),
                         LocateHandCall("tracker_r", TimeOf(nfs))>>]

\* get_hand_positions (swapchain.rs:249-275) on next_frame_state nfs, with
\* or without hand trackers, when the runtime would give l and r
HandPositions(nfs, trackers, l, r) ==
    IF nfs = None \/ ~trackers
    THEN [status |-> "returned", hands |-> None, xr_calls |-> <<>>]
    ELSE IF ~l.ok
    THEN [status |-> "panicked", hands |-> None,
          xr_calls |-> <<LocateHandCall("tracker_l", TimeOf(nfs))>>]
    ELSE IF ~r.ok
    THEN [status |-> "panicked", hands |-> None,
          xr_calls |-> <<LocateHandCall("tracker_l", TimeOf(nfs)),
                         LocateHandCall("tracker_r", TimeOf(nfs))>>]
    ELSE [status |-> "returned",
          hands |-> Some(HandPoseState(l.joints, r.joints)),
          xr_calls |-> <<LocateHandCall("tracker_l", TimeOf(nfs)),
                         LocateHandCall("tracker_r", TimeOf(nfs))>>]

\* get_hand_positions (swapchain.rs:249-275)
GetHandPositions ==
    /\ frame_call.status # "panicked"
    /\ \E l \in LocateHandResults("tracker_l", TimeOf(next_frame_state)),
          r \in LocateHandResults("tracker_r", TimeOf(next_frame_state)) :
          LET o == HandPositions(next_frame_state, hand_trackers, l, r)
          IN frame_call' =
                [FrameCallNow("get_hand_positions") EXCEPT
                    !.status = o.status,
                    !.hands = o.hands,
                    !.xr_calls = o.xr_calls]
    /\ UNCHANGED <<next_frame_state, waited, buffers, environment_blend_mode,
                   xr_frame_open, xr_time, xr_images_held>>

\* openxr::View as session.locate_views gives it: a pose (position and
\* orientation) and a field of view.
View(i, t) ==
    [pose |-> [position |-> <<i, t, 0>>, orientation |-> <<0, 0, 0, 1>>],
     fov |-> i]

\* The results session.locate_views(view_configuration_type, t, space) can
\* give: Err, or Ok with one view per eye.
LocateViewsResults(t) ==
    {[ok |-> FALSE, views |-> <<>>],
     [ok |-> TRUE, views |-> [i \in 1..VIEW_COUNT |-> View(i, t)]]}

\* Transform::from_translation(pos) with rotation set from the orientation
\* (swapchain.rs:297-304)
Transform(view) ==
    [translation |-> view.pose.position, rotation |-> view.pose.orientation,
     scale |-> <<1, 1, 1>>]

ViewPositions_LocatesWithoutFrame(nfs, v) ==
    [status |-> "returned",
     transforms |-> Some([i \in 1..Len(v.views) |-> Transform(v.views[i])]),
     xr_calls |-> <<XrCall("locate_views", TimeOf(nfs), "-", -1, FALSE)>>]

\* get_view_positions (swapchain.rs:277-309) on next_frame_state nfs, when
\* the runtime would give v
ViewPositions(nfs, v) ==
    IF nfs = None
    THEN [status |-> "returned", transforms |-> None, xr_calls |-> <<>>]
    ELSE IF ~v.ok
    THEN [status |-> "panicked", transforms |-> None,
          xr_calls |-> <<XrCall("locate_views", TimeOf(nfs), "-", -1, FALSE)>>]
    ELSE [status |-> "returned",
          transforms |->
             Some([i \in 1..Len(v.views) |-> Transform(v.views[i])]),
          xr_calls |-> <<XrCall("locate_views", TimeOf(nfs), "-", -1, FALSE)>>]

\* get_view_positions (swapchain.rs:277-309)
GetViewPositions ==
    /\ frame_call.status # "panicked"
    /\ \E v \in LocateViewsResults(TimeOf(next_frame_state)) :
          LET o == ViewPositions(next_frame_state, v)
          IN frame_call' =
                [FrameCallNow("get_view_positions") EXCEPT
                    !.status = o.status,
                    !.transforms = o.transforms,
                    !.xr_calls = o.xr_calls]
    /\ UNCHANGED <<next_frame_state, waited, buffers, environment_blend_mode,
                   xr_frame_open, xr_time, xr_images_held>>

\* ------------------------------------------------ format negotiation
\* Longest list of formats the runtime enumerates.
MaxFormats == 3
\* Number of times XRSwapchain::new is followed on one enumeration.
MaxNegotiations == 2
\* Number of textures the render resource context creates.
MaxTextures == 4
\* Number of updates the runner is followed for.
MaxFrames == 40

\* gfx_hal::format::NUM_FORMATS (swapchain.rs:424)
NUM_FORMATS == 185

\* A u32 as its two 16-bit halves: the value is hi * 65536 + lo.
U32(hi, lo) == <<hi, lo>>

\* The codes the runtime enumerates here: UNDEFINED; R4G4_UNORM_PACK8,
\* R8G8B8A8_UNORM, R8G8B8A8_SRGB, B8G8R8A8_SRGB, ASTC_4x4_UNORM_BLOCK,
\* ASTC_12x12_SRGB_BLOCK; the first code past them; a code with the top bit
\* set whose low bits are those of R8G8B8A8_UNORM; 0xFFFFFFFF.
FormatCodes ==
    {U32(0, 0), U32(0, 1), U32(0, 37), U32(0, 43), U32(0, 50), U32(0, 157),
     U32(0, 184), U32(0, 185), U32(32768, 37), U32(65535, 65535)}

\* The lists of at most n codes.
FormatListsTo(n) == UNION {[1..k -> FormatCodes] : k \in 0..n}

FormatLists == FormatListsTo(MaxFormats)

\* session.enumerate_swapchain_formats() (swapchain.rs:62-66)
EnumeratedFormats(f) == [ok |-> TRUE, formats |-> f]
EnumerateFailed == [ok |-> FALSE, formats |-> <<>>]

\* `*f as i32` (swapchain.rs:70): the i32 with the bits of the u32
from_raw(f) ==
    (IF f[1] >= 32768 THEN f[1] - 65536 ELSE f[1]) * 65536 + f[2]

\* `vk_format.as_raw() as _` into the u32 of SwapchainCreateInfo.format
\* (swapchain.rs:120): the u32 with the bits of the i32
as_raw_u32(raw) ==
    U32(((raw - (raw % 65536)) \div 65536) % 65536, raw % 65536)

\* `(raw as usize) < n` for an i32 raw: a negative raw is sign-extended to
\* a usize of at least 2^63 and is below no such n (swapchain.rs:424)
UsizeBelow(raw, n) == raw >= 0 /\ raw < n

\* gfx_hal::format::Format of the codes above, by discriminant
HalFormat(raw) ==
    CASE raw = 1 -> "Rg4Unorm"
      [] raw = 37 -> "Rgba8Unorm"
      [] raw = 43 -> "Rgba8Srgb"
      [] raw = 50 -> "Bgra8Srgb"
      [] raw = 157 -> "Astc4x4Unorm"
      [] raw = 184 -> "Astc12x12Srgb"
      [] OTHER -> "Format"

map_vk_format_NoUndefinedCheck(raw) ==
    IF UsizeBelow(raw, NUM_FORMATS) THEN Some(HalFormat(raw)) ELSE None

\* map_vk_format (swapchain.rs:423-431)
map_vk_format(raw) ==
    IF UsizeBelow(raw, NUM_FORMATS) /\ raw # 0
    THEN Some(HalFormat(raw))
    ELSE None

\* the arms of map_texture_format (swapchain.rs:441-568): hal format,
\* wgpu format
TextureFormatArms ==
    {<<"R8Unorm", "R8Unorm">>, <<"R8Snorm", "R8Snorm">>,
     <<"R8Uint", "R8Uint">>, <<"R8Sint", "R8Sint">>,
     <<"R16Uint", "R16Uint">>, <<"R16Sint", "R16Sint">>,
     <<"R16Sfloat", "R16Float">>, <<"Rg8Unorm", "Rg8Unorm">>,
     <<"Rg8Snorm", "Rg8Snorm">>, <<"Rg8Uint", "Rg8Uint">>,
     <<"Rg8Sint", "Rg8Sint">>, <<"R32Uint", "R32Uint">>,
     <<"R32Sint", "R32Sint">>, <<"R32Sfloat", "R32Float">>,
     <<"Rg16Uint", "Rg16Uint">>, <<"Rg16Sint", "Rg16Sint">>,
     <<"Rg16Sfloat", "Rg16Float">>, <<"Rgba8Unorm", "Rgba8Unorm">>,
     <<"Rgba8Srgb", "Rgba8UnormSrgb">>, <<"Rgba8Snorm", "Rgba8Snorm">>,
     <<"Rgba8Uint", "Rgba8Uint">>, <<"Rgba8Sint", "Rgba8Sint">>,
     <<"Bgra8Unorm", "Bgra8Unorm">>, <<"Bgra8Srgb", "Bgra8UnormSrgb">>,
     <<"A2r10g10b10Unorm", "Rgb10a2Unorm">>,
     <<"B10g11r11Ufloat", "Rg11b10Float">>, <<"Rg32Uint", "Rg32Uint">>,
     <<"Rg32Sint", "Rg32Sint">>, <<"Rg32Sfloat", "Rg32Float">>,
     <<"Rgba16Uint", "Rgba16Uint">>, <<"Rgba16Sint", "Rgba16Sint">>,
     <<"Rgba16Sfloat", "Rgba16Float">>, <<"Rgba32Uint", "Rgba32Uint">>,
     <<"Rgba32Sint", "Rgba32Sint">>, <<"Rgba32Sfloat", "Rgba32Float">>,
     <<"D32Sfloat", "Depth32Float">>, <<"X8D24Unorm", "Depth24Plus">>,
     <<"D24UnormS8Uint", "Depth24Plus">>,
     <<"D32SfloatS8Uint", "Depth24Plus">>,
     <<"Bc1RgbaUnorm", "Bc1RgbaUnorm">>,
     <<"Bc1RgbaSrgb", "Bc1RgbaUnormSrgb">>, <<"Bc2Unorm", "Bc2RgbaUnorm">>,
     <<"Bc2Srgb", "Bc2RgbaUnormSrgb">>, <<"Bc3Unorm", "Bc3RgbaUnorm">>,
     <<"Bc3Srgb", "Bc3RgbaUnormSrgb">>, <<"Bc4Unorm", "Bc4RUnorm">>,
     <<"Bc4Snorm", "Bc4RSnorm">>, <<"Bc5Unorm", "Bc5RgUnorm">>,
     <<"Bc5Snorm", "Bc5RgSnorm">>, <<"Bc6hSfloat", "Bc6hRgbSfloat">>,
     <<"Bc6hUfloat", "Bc6hRgbUfloat">>, <<"Bc7Unorm", "Bc7RgbaUnorm">>,
     <<"Bc7Srgb", "Bc7RgbaUnormSrgb">>,
     <<"Etc2R8g8b8Unorm", "Etc2RgbUnorm">>,
     <<"Etc2R8g8b8Srgb", "Etc2RgbUnormSrgb">>,
     <<"Etc2R8g8b8a1Unorm", "Etc2RgbA1Unorm">>,
     <<"Etc2R8g8b8a1Srgb", "Etc2RgbA1UnormSrgb">>,
     <<"Etc2R8g8b8a8Unorm", "Etc2RgbA8Unorm">>,
     <<"EacR11Unorm", "EacRUnorm">>, <<"EacR11Snorm", "EacRSnorm">>,
     <<"EacR11g11Unorm", "EtcRgUnorm">>, <<"EacR11g11Snorm", "EtcRgSnorm">>,
     <<"Astc4x4Srgb", "Astc4x4RgbaUnormSrgb">>,
     <<"Astc5x4Unorm", "Astc5x4RgbaUnorm">>,
     <<"Astc5x4Srgb", "Astc5x4RgbaUnormSrgb">>,
     <<"Astc5x5Unorm", "Astc5x5RgbaUnorm">>,
     <<"Astc5x5Srgb", "Astc5x5RgbaUnormSrgb">>,
     <<"Astc6x5Unorm", "Astc6x5RgbaUnorm">>,
     <<"Astc6x5Srgb", "Astc6x5RgbaUnormSrgb">>,
     <<"Astc6x6Unorm", "Astc6x6RgbaUnorm">>,
     <<"Astc6x6Srgb", "Astc6x6RgbaUnormSrgb">>,
     <<"Astc8x5Unorm", "Astc8x5RgbaUnorm">>,
     <<"Astc8x5Srgb", "Astc8x5RgbaUnormSrgb">>,
     <<"Astc8x6Unorm", "Astc8x6RgbaUnorm">>,
     <<"Astc8x6Srgb", "Astc8x6RgbaUnormSrgb">>,
     <<"Astc10x5Unorm", "Astc10x5RgbaUnorm">>,
     <<"Astc10x5Srgb", "Astc10x5RgbaUnormSrgb">>,
     <<"Astc10x6Unorm", "Astc10x6RgbaUnorm">>,
     <<"Astc10x6Srgb", "Astc10x6RgbaUnormSrgb">>,
     <<"Astc8x8Unorm", "Astc8x8RgbaUnorm">>,
     <<"Astc8x8Srgb", "Astc8x8RgbaUnormSrgb">>,
     <<"Astc10x8Unorm", "Astc10x8RgbaUnorm">>,
     <<"Astc10x8Srgb", "Astc10x8RgbaUnormSrgb">>,
     <<"Astc10x10Unorm", "Astc10x10RgbaUnorm">>,
     <<"Astc10x10Srgb", "Astc10x10RgbaUnormSrgb">>,
     <<"Astc12x10Unorm", "Astc12x10RgbaUnorm">>,
     <<"Astc12x10Srgb", "Astc12x10RgbaUnormSrgb">>,
     <<"Astc12x12Unorm", "Astc12x12RgbaUnorm">>,
     <<"Astc12x12Srgb", "Astc12x12RgbaUnormSrgb">>}

\* map_texture_format (swapchain.rs:435-574)
map_texture_format(hal_format) ==
    IF \E arm \in TextureFormatArms : arm[1] = hal_format
    THEN Some((CHOOSE arm \in TextureFormatArms : arm[1] = hal_format)[2])
    ELSE None

\* one entry of vk_wgpu_formats (swapchain.rs:73-84)
VkWgpuFormat(f) ==
    LET vk_format == from_raw(f)
        hal_format == map_vk_format(vk_format)
    IN [vk_format |-> vk_format,
        hal_format |-> hal_format,
        wgpu_format |-> IF hal_format = None THEN None
                        ELSE map_texture_format(hal_format[1])]

\* `hal.is_some() && wgpu.is_some()` (swapchain.rs:97)
Supported(entry) == entry.hal_format # None /\ entry.wgpu_format # None

FindFormat_Last(vk_wgpu_formats) ==
    LET found == {i \in 1..Len(vk_wgpu_formats) :
                     Supported(vk_wgpu_formats[i])}
    IN IF found = {} THEN None
       ELSE LET i == CHOOSE i \in found : \A j \in found : j <= i
            IN Some([idx |-> i - 1,
                     vk |-> vk_wgpu_formats[i].vk_format,
                     hal |-> vk_wgpu_formats[i].hal_format[1],
                     wgpu |-> vk_wgpu_formats[i].wgpu_format[1]])

\* iter().enumerate().find(..).map(..) (swapchain.rs:94-98): the first
\* supported entry with its index, counted from 0
FindFormat(vk_wgpu_formats) ==
    LET found == {i \in 1..Len(vk_wgpu_formats) :
                     Supported(vk_wgpu_formats[i])}
    IN IF found = {} THEN None
       ELSE LET i == CHOOSE i \in found : \A j \in found : i <= j
            IN Some([idx |-> i - 1,
                     vk |-> vk_wgpu_formats[i].vk_format,
                     hal |-> vk_wgpu_formats[i].hal_format[1],
                     wgpu |-> vk_wgpu_formats[i].wgpu_format[1]])

Negotiation_AbortsOnUnsupported(enumerated) ==
    IF ~enumerated.ok
    THEN [status |-> "panicked", format |-> None, create_swapchain |-> None]
    ELSE LET vk_wgpu_formats ==
                [i \in 1..Len(enumerated.formats) |->
                    VkWgpuFormat(enumerated.formats[i])]
             format == FindFormat(vk_wgpu_formats)
         IN IF format = None
               \/ \E i \in 1..Len(vk_wgpu_formats) :
                     ~Supported(vk_wgpu_formats[i])
            THEN [status |-> "panicked", format |-> None,
                  create_swapchain |-> None]
            ELSE [status |-> "created", format |-> format,
                  create_swapchain |->
                     Some([format |-> as_raw_u32(format[1].vk),
                           array_size |-> VIEW_COUNT])]

\* The format negotiation of XRSwapchain::new and its create_swapchain call
\* (swapchain.rs:62-128): status "created", or "panicked" on the unwrap of
\* a failed enumeration and on the panic! for no supported format.
Negotiation(enumerated) ==
    IF ~enumerated.ok
    THEN [status |-> "panicked", format |-> None, create_swapchain |-> None]
    ELSE LET vk_wgpu_formats ==
                [i \in 1..Len(enumerated.formats) |->
                    VkWgpuFormat(enumerated.formats[i])]
             format == FindFormat(vk_wgpu_formats)
         IN IF format = None
            THEN [status |-> "panicked", format |-> None,
                  create_swapchain |-> None]
            ELSE [status |-> "created", format |-> format,
                  create_swapchain |->
                     Some([format |-> as_raw_u32(format[1].vk),
                           array_size |-> VIEW_COUNT])]

\* The swapchain exists: XRSwapchain::new has run its negotiation, on an
\* enumeration that has R8G8B8A8_UNORM alone.
InitNegotiated ==
    /\ swapchain_formats = EnumeratedFormats(<<U32(0, 37)>>)
    /\ format_log = <<Negotiation(swapchain_formats)>>

\* XRSwapchain::new runs its negotiation on the runtime's enumeration
NegotiateFormat ==
    /\ Len(format_log) < MaxNegotiations
    /\ format_log' = Append(format_log, Negotiation(swapchain_formats))
    /\ UNCHANGED swapchain_formats

\* ----------------------------------------------------------- SpecFormat
negotiate_format ==
    /\ NegotiateFormat
    /\ UNCHANGED <<sessionVars, tickVars, frameVars, poseVars, systemVars,
                   appVars>>

\* ------------------------------------------------- the systems of a tick
\* The stages of app.update() in which this program has its frame systems,
\* each followed by the next one the schedule runs: openxr_event_system in
\* CoreStage::PreUpdate (lib.rs:43), pre_render_system in RenderStage::Draw,
\* the render graph in RenderStage::Render, post_render_system in
\* RenderStage::PostRender (render_graph/mod.rs:15-22); after the last the
\* runner starts the next update (runner.rs:15-29).
StageAfter_PostRenderFirst(s) ==
    CASE s = "PreUpdate" -> "PostRender"
      [] s = "PostRender" -> "Draw"
      [] s = "Draw" -> "Render"
      [] OTHER -> "PreUpdate"

StageAfter(s) ==
    CASE s = "PreUpdate" -> "Draw"
      [] s = "Draw" -> "Render"
      [] s = "Render" -> "PostRender"
      [] OTHER -> "PreUpdate"

\* XREvent (event.rs:5-9) batches that drain_events can hand over
DrainBatches ==
    {<<>>, <<"ViewSurfaceCreated">>, <<"ViewSurfaceCreated", "ViewsCreated">>}

\* configuration_state.last_view_surface after the drain loop over the
\* batch (systems.rs:21-29)
LastViewSurface(last, drained) ==
    IF \E i \in 1..Len(drained) : drained[i] = "ViewSurfaceCreated"
    THEN Some("view_created")
    ELSE last

PublishHandPose_ClearsOnNone(pose, hp) ==
    IF hp = None THEN HandPoseState(None, None) ELSE hp[1]
PublishHandPose_KeepsTrackedHand(pose, hp) ==
    IF hp = None THEN pose
    ELSE [left |-> IF hp[1].left = None THEN pose.left ELSE hp[1].left,
          right |-> IF hp[1].right = None THEN pose.right ELSE hp[1].right]

\* `if let Some(hp) = openxr.get_hand_positions() { *hand_pose = hp; }`
\* (systems.rs:45-47)
PublishHandPose(pose, hp) == IF hp = None THEN pose ELSE hp[1]

\* openxr.touch_update() (systems.rs:42).  Its body is outside these
\* sources: it may leave the swapchain alone or run prepare_update on it.
TouchUpdates == {"nothing", "prepare_update"}

TouchUpdate(touch, nfs, w, t, blend, open) ==
    IF touch = "prepare_update"
    THEN PrepareOutcome(nfs, w, t, blend, open)
    ELSE [state |-> "-", next_frame_state |-> nfs, xr_frame_open |-> open,
          waits |-> 0, xr_calls |-> <<>>]

\* The results the runtime can give to a call, when the call is made; one
\* of them, which nothing reads, when it is not.
Asked(results, made) ==
    IF made THEN results ELSE {CHOOSE x \in results : TRUE}

NoSysCall ==
    [status |-> "none", drained |-> <<>>,
     start_hand_pose |-> HandPoseState(None, None),
     sample |-> None, transforms |-> None]

\* Events<XRState>, the resource that add_event::<event::XRState>() inserts
\* (lib.rs:36) and openxr_event_system writes: two buffers, the events of
\* the update before the current one and those of the current one.
NoEvents == <<(<<>>), (<<>>)>>

\* The update system that add_event schedules in CoreStage::First: the
\* older buffer is dropped and a new one is started.
EventsUpdate(events) == <<events[2], (<<>>)>>

\* Events::send
EventsSend(events, event) == <<events[1], Append(events[2], event)>>

\* what a fresh ManualEventReader reads (read_events of the integration
\* test, openxr_monado_integration_test.rs:76-81): both buffers, oldest first
EventsRead(events) == events[1] \o events[2]

SendChangedState_SendsTwice(events, changed) ==
    IF changed = None THEN events
    ELSE EventsSend(EventsSend(events, changed[1]), changed[1])

\* `match openxr.inner.handle_openxr_events()` of openxr_event_system
\* (systems.rs:33-39)
SendChangedState(events, changed) ==
    IF changed = None THEN events
    ELSE EventsSend(events, changed[1])

\* init_resource::<HandPoseState>() and ::<XRConfigurationState>()
\* (lib.rs:40-41); the schedule is about to run its first update
InitSystems ==
    /\ stage = "PreUpdate"
    /\ tick_ops = <<>>
    /\ hand_pose = HandPoseState(None, None)
    /\ last_view_surface = None
    /\ should_render = FALSE
    /\ sys_call = NoSysCall
    /\ state_events = NoEvents

\* The operations of openxr_event_system up to and including the session
\* poll (systems.rs:21-39)
PolledOps == <<"drain_events", "handle_openxr_events">>

\* openxr_event_system (systems.rs:11-52): drain the structural events,
\* poll the session and send the changed state, touch_update, sample the
\* hands, publish the views.  It is the first system of an update to write
\* Events<XRState>, after the update system of CoreStage::First.
OpenxrEventSystem ==
    /\ stage = "PreUpdate"
    /\ sys_call.status # "panicked"
    /\ HandleOpenxrEvents
    /\ state_events' =
          IF poll_call'.status = "panicked"
          THEN EventsUpdate(state_events)
          ELSE SendChangedState(EventsUpdate(state_events), poll_call'.result)
    /\ \E drained \in DrainBatches :
       /\ last_view_surface' = LastViewSurface(last_view_surface, drained)
       /\ IF poll_call'.status = "panicked"
          THEN /\ sys_call' = [NoSysCall EXCEPT !.status = "panicked",
                                                !.drained = drained,
                                                !.start_hand_pose = hand_pose]
               /\ tick_ops' = PolledOps
               /\ UNCHANGED <<frameVars, stage, hand_pose, should_render>>
          ELSE \E touch \in TouchUpdates :
               \E w \in Asked(WaitResults, touch = "prepare_update"
                                            /\ next_frame_state = None) :
               /\ (touch = "prepare_update" /\ next_frame_state = None)
                  => xr_time <= MaxTime
               /\ LET o == TouchUpdate(touch, next_frame_state, w, xr_time,
                                       environment_blend_mode, xr_frame_open)
                      t == TimeOf(o.next_frame_state)
                      live == o.next_frame_state # None
                  IN \E l \in Asked(LocateHandResults("tracker_l", t),
                                    live /\ hand_trackers),
                        r \in Asked(LocateHandResults("tracker_r", t),
                                    live /\ hand_trackers),
                        v \in Asked(LocateViewsResults(t), live) :
                     LET h == HandPositions(o.next_frame_state,
                                            hand_trackers, l, r)
                         p == ViewPositions(o.next_frame_state, v)
                         panicked == h.status = "panicked"
                                     \/ p.status = "panicked"
                     IN /\ next_frame_state' = o.next_frame_state
                        /\ xr_frame_open' = o.xr_frame_open
                        /\ xr_time' = xr_time + o.waits
                        /\ frame_call' = NoFrameCall
                        /\ hand_pose' =
                              IF h.status = "panicked" THEN hand_pose
                              ELSE PublishHandPose(hand_pose, h.hands)
                        /\ sys_call' =
                              [status |-> IF panicked THEN "panicked"
                                          ELSE "returned",
                               drained |-> drained,
                               start_hand_pose |-> hand_pose,
                               sample |-> h.hands,
                               transforms |->
                                  IF panicked THEN None ELSE p.transforms]
                        /\ tick_ops' =
                              PolledOps \o <<"touch_update",
                                             "get_hand_positions">>
                              \o (IF h.status = "panicked" THEN <<>>
                                  ELSE <<"get_view_positions">>)
                        /\ stage' = IF panicked THEN stage
                                    ELSE StageAfter(stage)
                        /\ UNCHANGED <<waited, buffers,
                                       environment_blend_mode,
                                       xr_images_held, should_render>>


ShouldRender_UnlessExiting(state) == state # "Exiting"

\* `let should_render = if let XRState::Running = state` of
\* pre_render_system (render_hook_systems.rs:12-16)
ShouldRender(state) == state = "Running"
\* pre_render_system (render_hook_systems.rs:4-45): prepare_update, and
\* get_next_swapchain_image_index when it returned Running.  The swapchain
\* exists, so prepare_update hands over no texture views; with the single
\* image of InitSchedule next_swap_chain_index stays 0.  The records of the
\* calls of openxr_event_system are of the past from here on; frame_call
\* keeps the state that prepare_update returned to the system.
PreRenderSystem ==
    /\ stage = "Draw"
    /\ next_frame_state = None => xr_time <= MaxTime
    /\ \E w \in Asked(WaitResults, next_frame_state = None) :
          LET o == PrepareOutcome(next_frame_state, w, xr_time,
                                  environment_blend_mode, xr_frame_open)
              running == ShouldRender(o.state)
          IN /\ next_frame_state' = o.next_frame_state
             /\ xr_frame_open' = o.xr_frame_open
             /\ xr_time' = xr_time + o.waits
             /\ waited' = IF running THEN TRUE ELSE waited
             /\ xr_images_held' = IF running THEN xr_images_held + 1
                                  ELSE xr_images_held
             /\ should_render' = running
             /\ tick_ops' =
                   tick_ops \o <<"prepare_update">>
                   \o (IF running THEN <<"get_next_swapchain_image_index">>
                       ELSE <<>>)
             /\ frame_call' = [NoFrameCall EXCEPT !.op = "pre_render_system",
                                                  !.status = "returned",
                                                  !.state = o.state]
    /\ sys_call' = NoSysCall
    /\ poll_call' = NoPoll
    /\ stage' = StageAfter(stage)
    /\ UNCHANGED <<xr_event_queue, session_state, previous_frame_state>>
    /\ UNCHANGED <<buffers, environment_blend_mode, hand_pose,
                   last_view_surface, state_events>>

\* RenderStage::Render: the render graph runs, drawing when
\* wgpu_render_state.should_render was set (render_hook_systems.rs:44)
RenderStage ==
    /\ stage = "Render"
    /\ tick_ops' = tick_ops \o (IF should_render THEN <<"render">> ELSE <<>>)
    /\ stage' = StageAfter(stage)
    /\ UNCHANGED <<frameVars, hand_pose, last_view_surface, should_render,
                   sys_call, state_events>>

\* post_render_system (render_hook_systems.rs:47-49)
PostRenderSystem ==
    /\ stage = "PostRender"
    /\ FinalizeUpdate
    /\ tick_ops' = Append(tick_ops, "finalize_update")
    /\ stage' = StageAfter(stage)
    /\ UNCHANGED <<hand_pose, last_view_surface, should_render, sys_call,
                   state_events>>

\* The poll results the runtime gives while the schedule is followed: the
\* session is begun, is ended, is lost, or the poll fails.
SchedulePolls ==
    {SessionStateChanged("READY", TRUE), SessionStateChanged("STOPPING", TRUE),
     SessionStateChanged("EXITING", TRUE), PollError}

\* Between two updates the runtime may queue one poll result.
RuntimePostsBeforeTick ==
    /\ stage = "PreUpdate"
    /\ sys_call.status # "panicked"
    /\ xr_event_queue = <<>>
    /\ \E e \in SchedulePolls : xr_event_queue' = <<e>>
    /\ poll_call' = NoPoll
    /\ UNCHANGED <<session_state, previous_frame_state>>


\* The session state changes the runtime reports while the published states
\* are followed: the session is begun, gains focus, is ended, is lost.
PublishPolls ==
    {SessionStateChanged("READY", TRUE), SessionStateChanged("FOCUSED", TRUE),
     SessionStateChanged("STOPPING", TRUE),
     SessionStateChanged("EXITING", TRUE)}

PublishBatches ==
    {<<e>> : e \in PublishPolls} \cup
    {<<e1, e2>> : e1 \in PublishPolls, e2 \in PublishPolls}

\* Between two updates the runtime may queue one or two state changes.
RuntimePostsBatch ==
    /\ stage = "PreUpdate"
    /\ sys_call.status # "panicked"
    /\ xr_event_queue = <<>>
    /\ \E batch \in PublishBatches : xr_event_queue' = batch
    /\ poll_call' = NoPoll
    /\ UNCHANGED <<session_state, previous_frame_state>>

\* --------------------------------------------------------- SpecPublish
runtime_posts_batch ==
    /\ RuntimePostsBatch
    /\ UNCHANGED <<tickVars, frameVars, poseVars, otherVars>>

\* ------------------------------- XRWindowTextureNode (window_texture_node.rs)
\* the nodes that xr_render_graph replaces by an XRWindowTextureNode
\* (xr_render_graph.rs:12-33)
Nodes == {"MAIN_DEPTH_TEXTURE", "MAIN_SAMPLED_COLOR_ATTACHMENT"}

\* XRViewSurfaceCreated (event.rs:23-26)
XRViewSurfaceCreated(width, height) == [width |-> width, height |-> height]

\* the view surfaces the swapchain reports
ViewSurfaces ==
    {XRViewSurfaceCreated(800, 600), XRViewSurfaceCreated(1024, 1024)}

\* Extent3d of TextureDescriptor.size
Extent3d(width, height, depth_or_array_layers) ==
    [width |-> width, height |-> height,
     depth_or_array_layers |-> depth_or_array_layers]

\* a render resource context call
RemoveTexture(texture) == [call |-> "remove_texture", texture |-> texture]
CreateTexture(texture, size) ==
    [call |-> "create_texture", texture |-> texture, size |-> size]

NoUpdateCall ==
    [node |-> "-", reported |-> None, start_last_view_surface |-> None,
     start_output |-> None, calls |-> <<>>]

\* XRWindowTextureNode::new (window_texture_node.rs:19-24) for each of the
\* nodes; the descriptor is the one of the replaced node, the output slot is
\* empty, and no texture exists
InitTextureNodes ==
    /\ node_last_view_surface = [n \in Nodes |-> None]
    /\ descriptor = [n \in Nodes |-> Extent3d(1, 1, 1)]
    /\ output_slots = [n \in Nodes |-> None]
    /\ textures = {}
    /\ textures_created = 0
    /\ update_call = NoUpdateCall

UpdateNode_AlwaysRecreates(reported, last, size, output, new_texture) ==
    IF reported # None
    THEN LET new_size ==
                Extent3d(reported[1].width, reported[1].height, 2)
         IN [last_view_surface |-> reported,
             size |-> new_size,
             output |-> Some(new_texture),
             calls |-> (IF output # None
                        THEN <<RemoveTexture(output[1])>> ELSE <<>>)
                       \o <<CreateTexture(new_texture, new_size)>>]
    ELSE [last_view_surface |-> last, size |-> size, output |-> output,
          calls |-> <<>>]
UpdateNode_KeepsOldTexture(reported, last, size, output, new_texture) ==
    IF reported # last /\ reported # None
    THEN LET new_size ==
                Extent3d(reported[1].width, reported[1].height, 2)
         IN [last_view_surface |-> reported,
             size |-> new_size,
             output |-> Some(new_texture),
             calls |-> <<CreateTexture(new_texture, new_size)>>]
    ELSE [last_view_surface |-> last, size |-> size, output |-> output,
          calls |-> <<>>]

\* The body of update (window_texture_node.rs:48-67) for the reported
\* XRConfigurationState.last_view_surface, the node's last_view_surface and
\* descriptor size and the content of its output slot; new_texture is the
\* id create_texture would give.  The result: the node's fields and the
\* slot afterwards, and the render resource context calls in their order.
UpdateNode(reported, last, size, output, new_texture) ==
    IF reported # last /\ reported # None
    THEN LET new_size ==
                Extent3d(reported[1].width, reported[1].height, 2)
         IN [last_view_surface |-> reported,
             size |-> new_size,
             output |-> Some(new_texture),
             calls |-> (IF output # None
                        THEN <<RemoveTexture(output[1])>> ELSE <<>>)
                       \o <<CreateTexture(new_texture, new_size)>>]
    ELSE [last_view_surface |-> last, size |-> size, output |-> output,
          calls |-> <<>>]

\* the textures of the render resource context after the calls of node n
RECURSIVE TexturesAfter(_, _, _)
TexturesAfter(live, n, calls) ==
    IF calls = <<>> THEN live
    ELSE LET c == Head(calls)
         IN TexturesAfter(
               IF c.call = "remove_texture"
               THEN {t \in live : t.texture # c.texture}
               ELSE live \cup {[texture |-> c.texture, node |-> n,
                                size |-> c.size]},
               n, Tail(calls))

\* how many create_texture calls there are among the calls
Created(calls) ==
    Cardinality({i \in 1..Len(calls) : calls[i].call = "create_texture"})

\* XRWindowTextureNode::update of node n (window_texture_node.rs:36-68)
Update(n) ==
    LET u == UpdateNode(last_view_surface, node_last_view_surface[n],
                        descriptor[n], output_slots[n],
                        textures_created + 1)
    IN /\ textures_created + Created(u.calls) <= MaxTextures
       /\ node_last_view_surface' =
             [node_last_view_surface EXCEPT ![n] = u.last_view_surface]
       /\ descriptor' = [descriptor EXCEPT ![n] = u.size]
       /\ output_slots' = [output_slots EXCEPT ![n] = u.output]
       /\ textures' = TexturesAfter(textures, n, u.calls)
       /\ textures_created' = textures_created + Created(u.calls)
       /\ update_call' =
             [node |-> n, reported |-> last_view_surface,
              start_last_view_surface |-> node_last_view_surface[n],
              start_output |-> output_slots[n], calls |-> u.calls]

\* The ViewSurfaceCreated arm of the drain loop of openxr_event_system
\* (systems.rs:24-27) for an event that carries the surface.
ViewSurfaceCreated ==
    /\ \E surface \in ViewSurfaces : last_view_surface' = Some(surface)
    /\ update_call' = NoUpdateCall
    /\ UNCHANGED <<node_last_view_surface, descriptor, output_slots,
                   textures, textures_created>>

\* --------------------------------------------------------- SpecTexture
view_surface_created ==
    /\ ViewSurfaceCreated
    /\ UNCHANGED <<stage, tick_ops, hand_pose, should_render, sys_call,
                   state_events>>
    /\ UNCHANGED <<sessionVars, tickVars, frameVars, poseVars, formatVars,
                   runnerVars, handVars, nodeVars>>

update ==
    /\ \E n \in Nodes : Update(n)
    /\ UNCHANGED <<sessionVars, tickVars, frameVars, poseVars, systemVars,
                   formatVars, runnerVars, handVars, nodeVars>>

\* ------------------------------------------------- xr_runner (runner.rs)
\* `let print_every = 1000` (runner.rs:11)
print_every == 1000

\* set_runner(runner::xr_runner) (lib.rs:45) and the locals of xr_runner
\* (runner.rs:9-13): the runner is about to enter its loop; App::build has
\* added Events<AppExit>, empty
InitRunner ==
    /\ runner_pc = "loop"
    /\ frame = 0
    /\ durations = 0
    /\ app_exit_events = NoEvents
    /\ destroy_calls = 0

ExitTriggered_OlderBufferOnly(events) == events[1] # <<>>

\* app_exit_event_reader.iter(&app_exit_events).next_back().is_some()
\* (runner.rs:18-21): the reader has read nothing yet, any event it reads
\* ending the loop, so it finds the events of both buffers
ExitTriggered(events) == EventsRead(events) # <<>>

\* the top of the loop (runner.rs:17-26): break if an AppExit is found,
\* go on to the update if not
RunnerCheck ==
    /\ runner_pc = "loop"
    /\ runner_pc' = IF ExitTriggered(app_exit_events) THEN "break"
                    ELSE "update"
    /\ UNCHANGED <<frame, durations, app_exit_events, destroy_calls>>

\* the rest of the loop body (runner.rs:28-45): app.update(), in which the
\* update system of Events<AppExit> runs and the systems may send an
\* AppExit, then the statistics and the frame count
RunnerUpdate ==
    /\ runner_pc = "update"
    /\ frame < MaxFrames
    /\ \E sent \in BOOLEAN :
          app_exit_events' =
             IF sent THEN EventsSend(EventsUpdate(app_exit_events), "AppExit")
             ELSE EventsUpdate(app_exit_events)
    /\ durations' = IF frame % print_every = 0 THEN 0 ELSE durations + 1
    /\ frame' = frame + 1
    /\ runner_pc' = "loop"
    /\ UNCHANGED destroy_calls

\* after the loop (runner.rs:48-49): destroy, and xr_runner returns
RunnerDestroy ==
    /\ runner_pc = "break"
    /\ destroy_calls' = destroy_calls + 1
    /\ runner_pc' = "returned"
    /\ UNCHANGED <<frame, durations, app_exit_events>>

\* ---------------------------------------------------------- SpecRunner
runner_check ==
    /\ RunnerCheck
    /\ UNCHANGED <<sessionVars, tickVars, frameVars, poseVars, systemVars,
                   formatVars, textureVars, handVars,
                   nodeVars>>

runner_update ==
    /\ RunnerUpdate
    /\ UNCHANGED <<sessionVars, tickVars, frameVars, poseVars, systemVars,
                   formatVars, textureVars, handVars,
                   nodeVars>>

runner_destroy ==
    /\ RunnerDestroy
    /\ UNCHANGED <<sessionVars, tickVars, frameVars, poseVars, systemVars,
                   formatVars, textureVars, handVars,
                   nodeVars>>

\* ----------------------------- hand tracking (bevy_openxr/hand_tracking.rs)
\* openxr::HAND_JOINT_COUNT, the number of boxes setup spawns for each hand
\* (hand_tracking.rs:57)
HAND_JOINT_COUNT == 26

\* the indices LeftHand(i) and RightHand(i) of the joint boxes
Joints == 0..(HAND_JOINT_COUNT - 1)

\* HandTrackingState (hand_tracking.rs:125-131)
HandTrackingState(tracked, visible, left_visible, right_visible) ==
    [tracked |-> tracked, visible |-> visible,
     left_visible |-> left_visible, right_visible |-> right_visible]

\* the Transform hand_system gives the box of joint idx from the joint
\* locations of its hand: translation and rotation of joints[idx].pose
\* (hand_tracking.rs:186-189)
JointTransform(joints, idx) == [joints |-> joints, joint |-> idx]

\* the boxes of one hand, all with the given visibility, placed by f
Boxes(is_visible, f) ==
    [idx \in Joints |-> [transform |-> f[idx], is_visible |-> is_visible]]

\* the boxes with Visible.is_visible set and the Transforms kept
SetVisible(boxes, is_visible) ==
    [idx \in Joints |-> [boxes[idx] EXCEPT !.is_visible = is_visible]]

\* the boxes with the Transforms taken from the joint locations
Placed(boxes, joints) ==
    [idx \in Joints |->
        [boxes[idx] EXCEPT !.transform = JointTransform(joints, idx)]]

NoHandCall ==
    [op |-> "none",
     start_state |-> HandTrackingState(FALSE, FALSE, FALSE, FALSE),
     start_boxes |-> <<>>,
     events |-> <<>>]

\* init_resource::<HandTrackingState>() and the startup system setup
\* (hand_tracking.rs:19-20, 56-80): the default state, and the boxes of
\* both hands as PbrBundle spawns them, visible and not yet placed
InitHands ==
    /\ hand_tracking_state = HandTrackingState(FALSE, FALSE, FALSE, FALSE)
    /\ hand_boxes = [hand \in {"left", "right"} |->
                        Boxes(TRUE, [idx \in Joints |-> "identity"])]
    /\ hand_call = NoHandCall
    /\ last_state_event = None

\* one hand of hand_system (hand_tracking.rs:178-212 resp. 214-231): with
\* joint locations the boxes are shown if the hand's flag was false, and
\* placed; without, they are hidden.  The result: the flag and the boxes.
HandOf(joints, flag, boxes) ==
    IF joints # None
    THEN [flag |-> TRUE,
          boxes |-> Placed(IF ~flag THEN SetVisible(boxes, TRUE) ELSE boxes,
                           joints[1])]
    ELSE [flag |-> FALSE, boxes |-> SetVisible(boxes, FALSE)]

HandSystem_RunsWhenInvisible(pose, state, boxes) ==
    LET l == HandOf(pose.left, state.left_visible, boxes["left"])
        r == HandOf(pose.right, state.right_visible, boxes["right"])
    IN [state |-> [state EXCEPT !.left_visible = l.flag,
                                !.right_visible = r.flag],
        boxes |-> [hand \in {"left", "right"} |->
                      IF hand = "left" THEN l.boxes ELSE r.boxes]]

\* hand_system (hand_tracking.rs:164-232) on the HandPoseState, the
\* HandTrackingState and the boxes: what it leaves of the last two
HandSystem(pose, state, boxes) ==
    IF ~state.visible
    THEN [state |-> state, boxes |-> boxes]
    ELSE LET l == HandOf(pose.left, state.left_visible, boxes["left"])
             r == HandOf(pose.right, state.right_visible, boxes["right"])
         IN [state |-> [state EXCEPT !.left_visible = l.flag,
                                     !.right_visible = r.flag],
             boxes |-> [hand \in {"left", "right"} |->
                           IF hand = "left" THEN l.boxes ELSE r.boxes]]

\* hand_system runs
RunHandSystem ==
    LET h == HandSystem(hand_pose, hand_tracking_state, hand_boxes)
    IN /\ hand_tracking_state' = h.state
       /\ hand_boxes' = h.boxes
       /\ hand_call' = [op |-> "hand_system",
                        start_state |-> hand_tracking_state,
                        start_boxes |-> hand_boxes,
                        events |-> <<>>]
       /\ UNCHANGED last_state_event

HandVisibilityEvent_SkipFrameHides(state, boxes, state_event) ==
    LET visible == state_event = "RunningFocused"
    IN [state |-> HandTrackingState(state.tracked, visible, visible, visible),
        boxes |-> [hand \in {"left", "right"} |->
                      SetVisible(boxes[hand], visible)]]

HandVisibilityEvent_SetsVisibleOnly(state, boxes, state_event) ==
    IF state_event = "SkipFrame"
    THEN [state |-> state, boxes |-> boxes]
    ELSE [state |-> [state EXCEPT !.visible = state_event = "RunningFocused"],
          boxes |-> boxes]

\* one pass of the loop of hand_visibility_system (hand_tracking.rs:139-161)
\* for the event state_event: SkipFrame goes on to the next event; for any
\* other the three flags and every box follow the event
HandVisibilityEvent(state, boxes, state_event) ==
    IF state_event = "SkipFrame"
    THEN [state |-> state, boxes |-> boxes]
    ELSE LET visible == state_event = "RunningFocused"
         IN [state |-> HandTrackingState(state.tracked, visible, visible,
                                         visible),
             boxes |-> [hand \in {"left", "right"} |->
                           SetVisible(boxes[hand], visible)]]

\* `for state_event in xr_state_events.iter()` (hand_tracking.rs:139)
RECURSIVE HandVisibility(_, _, _)
HandVisibility(state, boxes, events) ==
    IF events = <<>>
    THEN [state |-> state, boxes |-> boxes]
    ELSE LET h == HandVisibilityEvent(state, boxes, Head(events))
         IN  HandVisibility(h.state, h.boxes, Tail(events))

\* what the EventReader<XRState> of one run can hold: up to MaxStateEvents
\* events
StateEventBatches ==
    UNION {[1..n -> XRState] : n \in 0..MaxStateEvents}

\* the last event of events other than SkipFrame, last if there is none
RECURSIVE LastStateEvent(_, _)
LastStateEvent(last, events) ==
    IF events = <<>> THEN last
    ELSE LastStateEvent(IF Head(events) = "SkipFrame" THEN last
                        ELSE Some(Head(events)),
                        Tail(events))

\* hand_visibility_system (hand_tracking.rs:133-162) reading the events
\* sent since its last run
HandVisibilitySystem ==
    \E events \in StateEventBatches :
       LET h == HandVisibility(hand_tracking_state, hand_boxes, events)
       IN /\ hand_tracking_state' = h.state
          /\ hand_boxes' = h.boxes
          /\ hand_call' = [NoHandCall EXCEPT
                              !.op = "hand_visibility_system",
                              !.events = events]
          /\ last_state_event' = LastStateEvent(last_state_event, events)

\* `*hand_pose = hp` of openxr_event_system (systems.rs:45-47) for a sample
\* taken at time t, the first or the last display time
HandPosePublished ==
    /\ \E t \in {1, MaxTime} :
       \E l \in {None, Some(JointLocations("tracker_l", t))},
          r \in {None, Some(JointLocations("tracker_r", t))} :
          hand_pose' = HandPoseState(l, r)
    /\ hand_call' = NoHandCall
    /\ UNCHANGED <<hand_tracking_state, hand_boxes, last_state_event>>

\* ----------------------------------------------------------- SpecHands
hand_system ==
    /\ RunHandSystem
    /\ UNCHANGED <<sessionVars, tickVars, frameVars, poseVars, systemVars,
                   formatVars, textureVars, runnerVars, nodeVars>>

hand_visibility_system ==
    /\ HandVisibilitySystem
    /\ UNCHANGED <<sessionVars, tickVars, frameVars, poseVars, systemVars,
                   formatVars, textureVars, runnerVars, nodeVars>>

hand_pose_published ==
    /\ HandPosePublished
    /\ UNCHANGED <<stage, tick_ops, last_view_surface, should_render,
                   sys_call, state_events>>
    /\ UNCHANGED <<sessionVars, tickVars, frameVars, poseVars, formatVars,
                   textureVars, runnerVars, nodeVars>>
\* -------------------------------------------------------- SpecSchedule
runtime_posts_before_tick ==
    /\ RuntimePostsBeforeTick
    /\ UNCHANGED <<tickVars, frameVars, poseVars, otherVars>>

openxr_event_system ==
    OpenxrEventSystem /\ UNCHANGED <<tickVars, poseVars, restVars>>

pre_render_system ==
    PreRenderSystem /\ UNCHANGED <<tickVars, poseVars, restVars>>

render_stage ==
    RenderStage /\ UNCHANGED <<sessionVars, tickVars, poseVars, restVars>>

post_render_system ==
    PostRenderSystem
    /\ UNCHANGED <<sessionVars, tickVars, poseVars, restVars>>

\* ---------------------------------------------------------- SpecFrame
get_next_swapchain_image_index ==
    GetNextSwapchainImageIndex /\ UNCHANGED <<sessionVars, tickVars, poseVars, otherVars>>

prepare_update == PrepareUpdate /\ UNCHANGED <<sessionVars, tickVars, poseVars, otherVars>>

finalize_update == FinalizeUpdate /\ UNCHANGED <<sessionVars, tickVars, poseVars, otherVars>>

take_texture_views ==
    TakeTextureViews /\ UNCHANGED <<sessionVars, tickVars, poseVars, otherVars>>

get_hand_positions ==
    GetHandPositions /\ UNCHANGED <<sessionVars, tickVars, poseVars, otherVars>>

get_view_positions ==
    GetViewPositions /\ UNCHANGED <<sessionVars, tickVars, poseVars, otherVars>>

\* ------------- XRSwapchainNode (render_graph/nodes/swapchain_node.rs)
\* TextureId::new() for the view of buffer i (render_hook_systems.rs:24)
TextureId(i) == [texture_id |-> i]

\* RenderResourceId::Texture(id) (swapchain_node.rs:57)
RenderResourceIdTexture(id) == [kind |-> "Texture", id |-> id]

\* the record of an update call of the node: how it ended, and the field
\* and the slot as it found them
NoNodeCall ==
    [op |-> "none", status |-> "none", start_resource_ids |-> None,
     start_output |-> None]

\* XRConfigurationState::default() (lib.rs:40, 274-279) and
\* XRSwapchainNode::new (swapchain_node.rs:23-25); the output slot is empty
InitSwapchainNode ==
    /\ texture_view_ids = None
    /\ next_swap_chain_index = 0
    /\ resource_ids = None
    /\ swapchain_output = None
    /\ node_call = NoNodeCall

\* The texture views XRDevice::prepare_update hands to pre_render_system:
\* those of take_texture_views when every buffer still has its view, which
\* is at the first call, and None afterwards.
TextureViewsHandedOver ==
    IF FirstWithoutView > Len(buffers)
    THEN Some([i \in 1..Len(buffers) |-> buffers[i].texture_view[1]])
    ELSE None

\* What pre_render_system writes into XRConfigurationState and
\* WgpuRenderState (render_hook_systems.rs:12-44): an id for each texture
\* view handed over, the index of the acquired image when prepare_update
\* returned Running, and should_render.
PublishTextureViews ==
    /\ node_call.status # "panicked"
    /\ LET texture_views == TextureViewsHandedOver
       IN /\ buffers' = IF texture_views # None
                        THEN ViewsTakenBefore(Len(buffers) + 1)
                        ELSE buffers
          /\ texture_view_ids' =
                IF texture_views # None
                THEN Some([i \in 1..Len(texture_views[1]) |-> TextureId(i)])
                ELSE texture_view_ids
    /\ \E state \in XRState \ {"SkipFrame"},
          index \in 0..(Len(buffers) - 1) :
          /\ next_swap_chain_index' =
                IF ShouldRender(state) THEN index ELSE next_swap_chain_index
          /\ should_render' = ShouldRender(state)
    /\ node_call' = NoNodeCall
    /\ UNCHANGED <<resource_ids, swapchain_output>>
    /\ UNCHANGED <<next_frame_state, waited, environment_blend_mode,
                   xr_frame_open, xr_time, xr_images_held, frame_call>>

XRSwapchainNodeUpdate_FirstEntry(ids, published, index, output) ==
    LET cached ==
           IF ids # None THEN ids
           ELSE IF published # None
           THEN Some([i \in 1..Len(published[1]) |->
                         RenderResourceIdTexture(published[1][i])])
           ELSE None
    IN IF cached = None
       THEN [status |-> "returned", resource_ids |-> None, output |-> output]
       ELSE [status |-> "returned", resource_ids |-> cached,
             output |-> Some(cached[1][1])]

\* XRSwapchainNode::update (swapchain_node.rs:38-74) for the node's
\* resource_ids, the published texture_view_ids and next_swap_chain_index,
\* and the content of the output slot: the field and the slot afterwards;
\* "panicked" is the unwrap of resource_ids.get(index)
XRSwapchainNodeUpdate(ids, published, index, output) ==
    LET cached ==
           IF ids # None THEN ids
           ELSE IF published # None
           THEN Some([i \in 1..Len(published[1]) |->
                         RenderResourceIdTexture(published[1][i])])
           ELSE None
    IN IF cached = None
       THEN [status |-> "returned", resource_ids |-> None, output |-> output]
       ELSE IF index >= Len(cached[1])
       THEN [status |-> "panicked", resource_ids |-> cached,
             output |-> output]
       ELSE [status |-> "returned", resource_ids |-> cached,
             output |-> Some(cached[1][index + 1])]

\* the render graph runs the node
SwapchainNodeUpdate ==
    /\ node_call.status # "panicked"
    /\ LET u == XRSwapchainNodeUpdate(resource_ids, texture_view_ids,
                                      next_swap_chain_index, swapchain_output)
       IN /\ resource_ids' = u.resource_ids
          /\ swapchain_output' = u.output
          /\ node_call' = [op |-> "update", status |-> u.status,
                           start_resource_ids |-> resource_ids,
                           start_output |-> swapchain_output]
    /\ UNCHANGED <<texture_view_ids, next_swap_chain_index>>

\* ------------------------------------------------------------ SpecNode
publish_texture_views ==
    /\ PublishTextureViews
    /\ UNCHANGED <<stage, tick_ops, hand_pose, last_view_surface, sys_call,
                   state_events>>
    /\ UNCHANGED <<sessionVars, tickVars, poseVars, formatVars, textureVars,
                   runnerVars, handVars>>

swapchain_node_update ==
    /\ SwapchainNodeUpdate
    /\ UNCHANGED <<sessionVars, tickVars, frameVars, poseVars, systemVars,
                   formatVars, textureVars, runnerVars, handVars>>
\* ------------------------------------------------------ specifications
\* the render graph nodes and systems of the bevy_openxr crate, as built
InitApp == InitTextureNodes /\ InitRunner /\ InitHands /\ InitSwapchainNode
Init ==
    /\ InitSession
    /\ poll_log = <<>>
    /\ InitLifecycle
    /\ InitSwapchain(1, "OPAQUE")
    /\ hand_trackers = FALSE
    /\ InitSystems
    /\ InitApp
    /\ InitNegotiated

Next ==
    \/ RuntimePost
    \/ handle_openxr_events

Spec == Init /\ [][Next]_vars

NextTicks ==
    \/ TickPost
    \/ TickPoll

SpecTicks == Init /\ [][NextTicks]_vars

InitFrame ==
    /\ InitSession
    /\ poll_log = <<>>
    /\ InitLifecycle
    /\ \E n \in 1..MaxImages, b \in BlendModes : InitSwapchain(n, b)
    /\ hand_trackers \in BOOLEAN
    /\ InitSystems
    /\ InitApp
    /\ InitNegotiated

NextFrame ==
    \/ prepare_update
    \/ get_next_swapchain_image_index
    \/ finalize_update
    \/ take_texture_views
    \/ get_hand_positions
    \/ get_view_positions

SpecFrame == InitFrame /\ [][NextFrame]_vars

InitSchedule ==
    /\ InitSession
    /\ poll_log = <<>>
    /\ InitLifecycle
    /\ InitSwapchain(1, "OPAQUE")
    /\ hand_trackers \in BOOLEAN
    /\ InitSystems
    /\ InitApp
    /\ InitNegotiated

NextSchedule ==
    \/ runtime_posts_before_tick
    \/ openxr_event_system
    \/ pre_render_system
    \/ render_stage
    \/ post_render_system

SpecSchedule == InitSchedule /\ [][NextSchedule]_vars


InitPublish ==
    /\ InitSession
    /\ poll_log = <<>>
    /\ InitLifecycle
    /\ InitSwapchain(1, "OPAQUE")
    /\ hand_trackers = FALSE
    /\ InitSystems
    /\ InitApp
    /\ InitNegotiated

NextPublish ==
    \/ runtime_posts_batch
    \/ openxr_event_system
    \/ pre_render_system
    \/ render_stage
    \/ post_render_system

SpecPublish == InitPublish /\ [][NextPublish]_vars

NextLifecycle == LifecyclePost \/ LifecycleOtherPost \/ LifecyclePoll

SpecLifecycle == Init /\ [][NextLifecycle]_vars

NextTexture == view_surface_created \/ update

SpecTexture == Init /\ [][NextTexture]_vars

NextRunner == runner_check \/ runner_update \/ runner_destroy

\* xr_runner is one sequential loop: a step that can be taken is taken
SpecRunner ==
    /\ Init
    /\ [][NextRunner]_vars
    /\ WF_vars(runner_check)
    /\ WF_vars(runner_update)
    /\ WF_vars(runner_destroy)

NextHands == hand_pose_published \/ hand_visibility_system \/ hand_system

SpecHands == Init /\ [][NextHands]_vars
InitFormat ==
    /\ InitSession
    /\ poll_log = <<>>
    /\ InitLifecycle
    /\ InitSwapchain(1, "OPAQUE")
    /\ hand_trackers = FALSE
    /\ InitSystems
    /\ InitApp
    /\ swapchain_formats \in
          {EnumerateFailed} \cup {EnumeratedFormats(f) : f \in FormatLists}
    /\ format_log = <<>>

NextFormat == negotiate_format

SpecFormat == InitFormat /\ [][NextFormat]_vars

NextNode == publish_texture_views \/ swapchain_node_update

SpecNode == InitFrame /\ [][NextNode]_vars
\* ------------------------------------------- polls around an early return
\* The events with an arm of their own in handle_openxr_events
\* (lib.rs:165-208): the session states the match names, their session call
\* succeeding, and InstanceLossPending.
DeferredEvents ==
    {SessionStateChanged(s, TRUE) : s \in RuntimeSessionStates \ {"UNKNOWN"}}
    \cup {OtherEvent("InstanceLossPending")}

\* the runtime queues one more of them (instance.poll_event, lib.rs:131)
RuntimePostsDeferred ==
    /\ poll_call.status # "panicked"
    /\ Len(xr_event_queue) < MaxDeferred
    /\ \E e \in DeferredEvents : xr_event_queue' = Append(xr_event_queue, e)
    /\ poll_call' = NoPoll
    /\ UNCHANGED <<session_state, previous_frame_state>>
    /\ UNCHANGED <<tickVars, frameVars, poseVars, otherVars>>

NextExit ==
    \/ RuntimePostsDeferred
    \/ handle_openxr_events

SpecExit == Init /\ [][NextExit]_vars
\* --------------------------------------------- the poll loop, pass by pass
\* handle_openxr_events (lib.rs:128-241) followed one pass of its loop at a
\* time.  While the call runs poll_call.status is "polling", and
\* poll_call.result holds Some(state) once state_changed is set.  The queue
\* is finite: the runtime queues events between calls.
PollEnter ==
    /\ poll_call.status \notin {"polling", "panicked"}
    /\ poll_call' = [NoPoll EXCEPT !.status = "polling",
                                   !.batch = xr_event_queue,
                                   !.start_state = session_state]
    /\ UNCHANGED <<xr_event_queue, session_state, previous_frame_state>>

\* the locals and fields of the call under way
PollLocals ==
    [session_state |-> session_state,
     previous_frame_state |-> previous_frame_state,
     state_changed |-> poll_call.result # None,
     ctl |-> "continue",
     xr_calls |-> poll_call.xr_calls]

\* one pass of the `while let` (lib.rs:131-233): poll_event gives the head
\* of the queue and its arm runs
PollIterate ==
    /\ poll_call.status = "polling"
    /\ xr_event_queue # <<>>
    /\ LET r == PollLoop(PollLocals, <<Head(xr_event_queue)>>)
       IN /\ xr_event_queue' = r.queue \o Tail(xr_event_queue)
          /\ session_state' = r.m.session_state
          /\ previous_frame_state' = r.m.previous_frame_state
          /\ poll_call' =
                [poll_call EXCEPT
                    !.status = CASE r.m.ctl = "panic" -> "panicked"
                                 [] r.m.ctl = "return" -> "returned_exit"
                                 [] OTHER -> "polling",
                    !.result = IF r.m.ctl = "panic" THEN None
                               ELSE get_changed_state(r.m),
                    !.xr_calls = r.m.xr_calls]

\* poll_event gives None: the loop ends, the sleep of lib.rs:235-238 runs
\* or not, and the call returns (lib.rs:240)
PollLeave ==
    /\ poll_call.status = "polling"
    /\ xr_event_queue = <<>>
    /\ poll_call' = [poll_call EXCEPT !.status = "returned",
                                      !.slept = idle_sleep(PollLocals)]
    /\ UNCHANGED <<xr_event_queue, session_state, previous_frame_state>>

\* the events of every arm, one that no arm matches, a session state the
\* match does not name, a session call that fails and a failed poll
LoopEvents ==
    DeferredEvents
    \cup {SessionStateChanged("READY", FALSE),
          SessionStateChanged("UNKNOWN", TRUE),
          OtherEvent("EventsLost"), PollError}

RuntimePostsBetweenCalls ==
    /\ poll_call.status \notin {"polling", "panicked"}
    /\ Len(xr_event_queue) < MaxQueue
    /\ \E e \in LoopEvents : xr_event_queue' = Append(xr_event_queue, e)
    /\ poll_call' = NoPoll
    /\ UNCHANGED <<session_state, previous_frame_state>>
    /\ UNCHANGED <<tickVars, frameVars, poseVars, otherVars>>

poll_enter ==
    PollEnter /\ UNCHANGED <<tickVars, frameVars, poseVars, otherVars>>

poll_iterate ==
    PollIterate /\ UNCHANGED <<tickVars, frameVars, poseVars, otherVars>>

poll_leave ==
    PollLeave /\ UNCHANGED <<tickVars, frameVars, poseVars, otherVars>>

NextLoop ==
    \/ RuntimePostsBetweenCalls
    \/ poll_enter
    \/ poll_iterate
    \/ poll_leave

\* a call under way runs on: nothing in it waits for anything
SpecLoop ==
    /\ Init
    /\ [][NextLoop]_vars
    /\ WF_vars(poll_iterate)
    /\ WF_vars(poll_leave)
\* ================================================================ claims
\* What a handle_openxr_events call is seen to have done, read in the state
\* it leaves (poll_call.status # "none").
PollReturned == poll_call.status \in {"returned", "returned_exit"}

\* the poll results the call took from the runtime's queue
PollConsumed ==
    SubSeq(poll_call.batch, 1, Len(poll_call.batch) - Len(xr_event_queue))

\* the events whose arm ran to its end: a call that panicked did so on the
\* last result it took
PollProcessed ==
    IF poll_call.status = "panicked"
    THEN SubSeq(PollConsumed, 1, Len(PollConsumed) - 1)
    ELSE PollConsumed

\* The transition table of spec 4.1: the derived state after event e when the
\* derived state before it is cur.
TableDerived(e, cur) ==
    IF e.kind = "SessionStateChanged"
    THEN CASE e.state = "READY" -> "Running"
           [] e.state = "STOPPING" -> "Paused"
           [] e.state = "EXITING" -> "Exiting"
           [] e.state = "LOSS_PENDING" -> "Exiting"
           [] e.state = "VISIBLE" -> "Running"
           [] e.state = "FOCUSED" -> "RunningFocused"
           [] e.state = "IDLE" -> "Paused"
           [] e.state = "SYNCHRONIZED" -> "Running"
           [] OTHER -> cur
    ELSE IF e.kind = "InstanceLossPending" THEN "Exiting" ELSE cur

\* the table applied to the events es in order, from cur
RECURSIVE TableFold(_, _)
TableFold(cur, es) ==
    IF es = <<>> THEN cur
    ELSE TableFold(TableDerived(Head(es), cur), Tail(es))

\* how many of the events es change the derived state, by the table
RECURSIVE TableChanges(_, _)
TableChanges(cur, es) ==
    IF es = <<>> THEN 0
    ELSE (IF TableDerived(Head(es), cur) # cur THEN 1 ELSE 0)
         + TableChanges(TableDerived(Head(es), cur), Tail(es))

IsExitEvent(e) ==
    \/ e.kind = "SessionStateChanged" /\ e.state \in {"EXITING", "LOSS_PENDING"}
    \/ e.kind = "InstanceLossPending"

\* C1: after any call, the derived state is the state the call started from
\* taken through the transition table by each event it processed, in order
\* (unrecognised session states leave it unchanged).
C1_DerivedStateFollowsTable ==
    poll_call.status # "none" =>
        session_state = TableFold(poll_call.start_state, PollProcessed)

\* a call that processed READY then FOCUSED from Paused
C1_Witness ==
    /\ PollReturned
    /\ poll_call.start_state = "Paused"
    /\ PollConsumed = <<SessionStateChanged("READY", TRUE),
                        SessionStateChanged("FOCUSED", TRUE)>>
    /\ session_state = "RunningFocused"

\* C3 as stated: a call that returns Some(s) returns the derived state at
\* return, and s differs from the derived state the call began with.
C3_SomeDiffersFromStart ==
    (PollReturned /\ poll_call.result # None) =>
        /\ poll_call.result = Some(session_state)
        /\ session_state # poll_call.start_state

\* C3 as amended: a call that returns Some(s) returns the derived state at
\* return and processed at least one event that changed the derived state; s
\* differs from the state the call began with when exactly one processed
\* event changed it.
C3_SomeOnlyAfterTransition ==
    (PollReturned /\ poll_call.result # None) =>
        /\ poll_call.result = Some(session_state)
        /\ TableChanges(poll_call.start_state, PollConsumed) >= 1
        /\ TableChanges(poll_call.start_state, PollConsumed) = 1
              => session_state # poll_call.start_state

\* a call whose batch left and re-entered the state it began with
C3_Witness ==
    /\ PollReturned
    /\ Len(PollConsumed) = 2
    /\ poll_call.start_state = "Running"
    /\ poll_call.result = Some("Running")

\* C4: a call returns None when every event it processed maps to the state
\* that was current when it began (also when it processed none).
C4_NoneWithoutTransition ==
    (/\ PollReturned
     /\ \A i \in 1..Len(PollConsumed) :
           TableDerived(PollConsumed[i], poll_call.start_state)
              = poll_call.start_state)
    => poll_call.result = None

\* IDLE received while Paused
C4_Witness ==
    /\ PollReturned
    /\ poll_call.start_state = "Paused"
    /\ PollConsumed = <<SessionStateChanged("IDLE", TRUE)>>
    /\ poll_call.result = None

\* C6: when a call takes an EXITING, LOSS_PENDING or InstanceLossPending
\* event, that is the last result it takes: the derived state is Exiting,
\* the events queued behind it stay in the queue, and the value returned is
\* decided by the events up to it alone.
C6_ExitShortCircuits ==
    poll_call.status # "none" =>
        \A k \in 1..Len(PollConsumed) :
            IsExitEvent(PollConsumed[k]) =>
                /\ k = Len(PollConsumed)
                /\ PollReturned
                /\ session_state = "Exiting"
                /\ xr_event_queue
                      = SubSeq(poll_call.batch, k + 1, Len(poll_call.batch))
                /\ ~poll_call.slept
                /\ poll_call.result =
                      IF TableChanges(poll_call.start_state,
                                      SubSeq(poll_call.batch, 1, k)) > 0
                      THEN Some("Exiting") ELSE None

\* an exit event was taken and FOCUSED is still queued behind it
C6_Witness ==
    /\ PollReturned
    /\ PollConsumed # <<>>
    /\ IsExitEvent(PollConsumed[Len(PollConsumed)])
    /\ xr_event_queue = <<SessionStateChanged("FOCUSED", TRUE)>>
    /\ poll_call.result = Some("Exiting")

\* C9 as stated: a call sleeps iff the derived state at its end is Paused
\* and no event it processed changed the state.
C9_SleepsIffPausedUnchanged ==
    PollReturned =>
        (poll_call.slept <=>
            /\ session_state = "Paused"
            /\ TableChanges(poll_call.start_state, PollConsumed) = 0)

\* C9 as amended: a call sleeps iff the derived state at its end is Paused,
\* whether or not an event it processed changed the state.
C9_SleepsIffPaused ==
    PollReturned => (poll_call.slept <=> session_state = "Paused")

\* a call that changed the state to Paused, and slept
C9_Witness ==
    /\ PollReturned
    /\ poll_call.start_state = "RunningFocused"
    /\ poll_call.result = Some("Paused")
    /\ poll_call.slept

\* C10: a call does not sleep when the derived state at return is Running or
\* RunningFocused, nor when it returns on an exit event.
C10_NoSleepWhenRunningOrExit ==
    PollReturned =>
        /\ session_state \in {"Running", "RunningFocused"} => ~poll_call.slept
        /\ (PollConsumed # <<>> /\ IsExitEvent(PollConsumed[Len(PollConsumed)]))
              => ~poll_call.slept

\* a call that ended Running after processing events from Paused
C10_Witness ==
    /\ PollReturned
    /\ poll_call.start_state = "Paused"
    /\ PollConsumed # <<>>
    /\ session_state = "Running"
    /\ ~poll_call.slept

\* The scenario of C5: the session states the runtime reports, one per poll,
\* and the value each poll is to return.
ScenarioStates ==
    <<SessionStateChanged("IDLE", TRUE), SessionStateChanged("READY", TRUE),
      SessionStateChanged("FOCUSED", TRUE),
      SessionStateChanged("STOPPING", TRUE)>>
ScenarioResults ==
    <<None, Some("Running"), Some("RunningFocused"), Some("Paused")>>

FollowsScenario(n) ==
    /\ n <= Len(poll_log)
    /\ \A i \in 1..n : poll_log[i].batch = <<ScenarioStates[i]>>

\* C5: from construction, as long as the polls are given Idle, Ready, Focused,
\* Stopping one per call, they return None, Some(Running),
\* Some(RunningFocused), Some(Paused) in that order.
C5_ScenarioResults ==
    \A n \in 1..Len(ScenarioStates) :
        FollowsScenario(n) =>
            /\ poll_log[n].status = "returned"
            /\ poll_log[n].result = ScenarioResults[n]

\* the four polls of the scenario have run
C5_Witness ==
    /\ FollowsScenario(Len(ScenarioStates))
    /\ session_state = "Paused"
    /\ previous_frame_state = "RunningFocused"

\* C2 as stated: begin_frame never reaches the runtime while a frame begun
\* earlier has not been ended.
C2_NoBeginWhileFrameOpen ==
    \A i \in 1..Len(frame_call.xr_calls) :
        frame_call.xr_calls[i].call = "begin_frame"
            => ~frame_call.xr_calls[i].frame_was_open

XrCallNames == {frame_call.xr_calls[i].call : i \in 1..Len(frame_call.xr_calls)}

\* C7 as stated: finalize_update without a stored frame, or without an
\* acquired image, calls neither release_image nor end_frame and leaves the
\* live FrameState and the waited flag as they were.
C7_FinalizeWithoutPrepareOrAcquireIsNoop ==
    (/\ frame_call.op = "finalize_update"
     /\ frame_call.start_next_frame_state = None \/ ~frame_call.start_waited)
    => /\ XrCallNames \cap {"release_image", "end_frame"} = {}
       /\ next_frame_state = frame_call.start_next_frame_state
       /\ waited = frame_call.start_waited

HadAllViews ==
    \A i \in 1..Len(frame_call.start_buffers) :
        frame_call.start_buffers[i].texture_view # None
HadNoViews ==
    \A i \in 1..Len(frame_call.start_buffers) :
        frame_call.start_buffers[i].texture_view = None
TexturesKept ==
    /\ Len(buffers) = Len(frame_call.start_buffers)
    /\ \A i \in 1..Len(buffers) :
          buffers[i].texture = frame_call.start_buffers[i].texture

\* C8 as stated: the first take_texture_views returns each buffer's view,
\* every later call returns nothing without failing, and each buffer keeps its
\* texture.
C8_LaterTakeReturnsNothing ==
    frame_call.op = "take_texture_views" =>
        /\ frame_call.status = "returned"
        /\ HadAllViews =>
              frame_call.views = [i \in 1..Len(buffers) |->
                                     frame_call.start_buffers[i].texture_view[1]]
        /\ HadNoViews => frame_call.views = <<>>
        /\ TexturesKept

\* C8 as amended: the first take_texture_views returns each buffer's view and
\* leaves every buffer without a view; a later call hands out no view again:
\* it panics on the empty slot; each buffer keeps its texture either way.
C8_TakeIsSingleUse ==
    frame_call.op = "take_texture_views" =>
        /\ TexturesKept
        /\ \A i \in 1..Len(buffers) : buffers[i].texture_view = None
        /\ HadAllViews =>
              /\ frame_call.status = "returned"
              /\ frame_call.views = [i \in 1..Len(buffers) |->
                                     frame_call.start_buffers[i].texture_view[1]]
        /\ ~HadAllViews =>
              /\ frame_call.status = "panicked"
              /\ frame_call.views = <<>>

\* take_texture_views called on buffers whose views were taken before
C8_Witness ==
    /\ frame_call.op = "take_texture_views"
    /\ HadNoViews
    /\ Len(buffers) = 2
    /\ frame_call.status = "panicked"

\* The names of the runtime calls of the frame operation that has just run,
\* in the order they were made.
XrCallSeq == [i \in 1..Len(frame_call.xr_calls) |-> frame_call.xr_calls[i].call]

\* The runtime calls of that operation that have the given name.
XrCallsNamed(name) ==
    {i \in 1..Len(frame_call.xr_calls) : frame_call.xr_calls[i].call = name}

\* The prepare_update that has just run called wait_frame and got w.
PrepareWaited(ok, render) ==
    /\ frame_call.op = "prepare_update"
    /\ frame_call.wait # None
    /\ frame_call.wait[1].ok = ok
    /\ ok => frame_call.wait[1].frame_state[1].should_render = render

C12_RunningIffFrameStateLive ==
    frame_call.op = "prepare_update"
    => /\ frame_call.state \in {"Paused", "Running"}
       /\ frame_call.state = "Running" <=> next_frame_state # None
       /\ PrepareWaited(TRUE, TRUE)
          => next_frame_state = frame_call.wait[1].frame_state

C12_Witness ==
    /\ PrepareWaited(TRUE, TRUE)
    /\ frame_call.state = "Running"
    /\ next_frame_state = Some(FrameState(2, TRUE))

\* C13: prepare_update called while a FrameState is stored returns Running,
\* makes no runtime call (no wait_frame, begin_frame, end_frame) and leaves
\* the stored FrameState as it was.
C13_PrepareWhileLiveIsNoop ==
    (/\ frame_call.op = "prepare_update"
     /\ frame_call.start_next_frame_state # None)
    => /\ frame_call.state = "Running"
       /\ frame_call.xr_calls = <<>>
       /\ frame_call.wait = None
       /\ next_frame_state = frame_call.start_next_frame_state

C13_Witness ==
    /\ frame_call.op = "prepare_update"
    /\ frame_call.start_next_frame_state # None
    /\ xr_frame_open

\* C14: when wait_frame fails, prepare_update returns Paused with wait_frame
\* as its only runtime call and no FrameState stored; every prepare_update
\* that starts with no FrameState calls wait_frame first, and so does the
\* prepare_update called next after the failure.
C14_FailedWaitPausesAndIsRetried ==
    /\ [](PrepareWaited(FALSE, FALSE)
          => /\ frame_call.state = "Paused"
             /\ XrCallSeq = <<"wait_frame">>
             /\ next_frame_state = None)
    /\ []((/\ frame_call.op = "prepare_update"
           /\ frame_call.start_next_frame_state = None)
          => /\ frame_call.wait # None
             /\ Len(frame_call.xr_calls) >= 1
             /\ frame_call.xr_calls[1].call = "wait_frame")
    /\ [][(PrepareWaited(FALSE, FALSE) /\ frame_call'.op = "prepare_update")
          => /\ frame_call'.wait # None
             /\ frame_call'.xr_calls[1].call = "wait_frame"]_vars

C14_Witness ==
    /\ PrepareWaited(FALSE, FALSE)
    /\ xr_time = 2

\* The finalize_update that has just run found a stored FrameState and an
\* acquired image.
FinalizedLiveFrame ==
    /\ frame_call.op = "finalize_update"
    /\ frame_call.start_next_frame_state # None
    /\ frame_call.start_waited

PoseQueried ==
    frame_call.op \in {"get_hand_positions", "get_view_positions"}

\* C19: get_hand_positions and get_view_positions called with no FrameState
\* stored return None and make no runtime call; and no FrameState is stored
\* before the first prepare_update that stores one, after a prepare_update
\* that returned Paused, and after finalize_update.
C19_NoPoseWithoutLiveFrame ==
    /\ [](/\ (PoseQueried /\ frame_call.start_next_frame_state = None)
             => /\ frame_call.status = "returned"
                /\ frame_call.hands = None
                /\ frame_call.transforms = None
                /\ frame_call.xr_calls = <<>>
          /\ (frame_call.op = "prepare_update" /\ frame_call.state = "Paused")
             => next_frame_state = None
          /\ frame_call.op = "finalize_update" => next_frame_state = None)
    /\ [][(xr_time = 1 /\ next_frame_state = None
           /\ frame_call'.op \in {"get_hand_positions", "get_view_positions"})
          => /\ frame_call'.hands = None
             /\ frame_call'.transforms = None
             /\ frame_call'.xr_calls = <<>>]_vars

C19_Witness ==
    /\ PoseQueried
    /\ frame_call.start_next_frame_state = None
    /\ hand_trackers
    /\ xr_time > 1

\* The operations of the current tick that the order ranks (rank # 0), taken
\* two by two, were made in the order of their ranks.
InRankOrder(rank) ==
    \A i, j \in 1..Len(tick_ops) :
       (i < j /\ rank[tick_ops[i]] # 0 /\ rank[tick_ops[j]] # 0)
       => rank[tick_ops[i]] < rank[tick_ops[j]]

TickOps ==
    {"drain_events", "handle_openxr_events", "touch_update",
     "get_hand_positions", "get_view_positions", "prepare_update",
     "get_next_swapchain_image_index", "render", "finalize_update"}

\* The order of a tick that C18 states: drain, poll, prepare, render,
\* finalize, and only then the hand poses and the view poses.
StatedRank ==
    [op \in TickOps |->
       CASE op = "drain_events" -> 1
         [] op = "handle_openxr_events" -> 2
         [] op = "prepare_update" -> 3
         [] op = "render" -> 4
         [] op = "finalize_update" -> 5
         [] op = "get_hand_positions" -> 6
         [] op = "get_view_positions" -> 7
         [] OTHER -> 0]

\* The order in which the schedule runs the systems and each system makes
\* its calls.
ScheduleRank ==
    [op \in TickOps |->
       CASE op = "drain_events" -> 1
         [] op = "handle_openxr_events" -> 2
         [] op = "touch_update" -> 3
         [] op = "get_hand_positions" -> 4
         [] op = "get_view_positions" -> 5
         [] op = "prepare_update" -> 6
         [] op = "get_next_swapchain_image_index" -> 7
         [] op = "render" -> 8
         [] OTHER -> 9]

\* The tick has run to its end: post_render_system has returned.
TickDone ==
    /\ stage = "PreUpdate"
    /\ tick_ops # <<>>
    /\ sys_call.status # "panicked"
    /\ poll_call.status # "panicked"

OpsOfTick == {tick_ops[i] : i \in 1..Len(tick_ops)}

HandsSampled ==
    /\ sys_call.status = "returned"
    /\ sys_call.sample # None

\* C20: when the sample of a tick has no left hand, the HandPoseState that
\* openxr_event_system publishes has left = None, whatever the pose held
\* before, and has the right hand of the sample, present or not.
C20_UntrackedLeftIsAbsent ==
    (HandsSampled /\ sys_call.sample[1].left = None)
    => /\ hand_pose.left = None
       /\ hand_pose.right = sys_call.sample[1].right

C20_Witness ==
    /\ HandsSampled
    /\ sys_call.sample[1].left = None
    /\ sys_call.sample[1].right # None
    /\ sys_call.start_hand_pose.left # None

\* The code at position k (counted from 1) of the enumeration maps through
\* map_vk_format and then through map_texture_format.
Mappable(k) ==
    LET hal == map_vk_format(from_raw(swapchain_formats.formats[k]))
    IN hal # None /\ map_texture_format(hal[1]) # None

MappablePositions == {k \in 1..Len(swapchain_formats.formats) : Mappable(k)}

\* Position k is the first mappable one: the case C16 is about.
FirstMappableAt(k) ==
    /\ k \in MappablePositions
    /\ \A j \in 1..(k - 1) : j \notin MappablePositions

\* C16: when the enumeration has a mappable code at position k and none
\* before it, every negotiation selects exactly the entry at position k,
\* hands its code to create_swapchain, and all negotiations on the same
\* enumeration select the same.
C16_FirstMappableIsSelected ==
    \A n \in 1..Len(format_log) :
       /\ \A k \in 1..Len(swapchain_formats.formats) :
             FirstMappableAt(k)
             => /\ format_log[n].status = "created"
                /\ format_log[n].format[1].idx = k - 1
                /\ format_log[n].format[1].vk =
                      from_raw(swapchain_formats.formats[k])
                /\ format_log[n].create_swapchain[1].format =
                      swapchain_formats.formats[k]
       /\ format_log[n] = format_log[1]

C16_Witness ==
    /\ Len(format_log) = 2
    /\ FirstMappableAt(3)
    /\ 2 \in DOMAIN swapchain_formats.formats
    /\ swapchain_formats.formats[2] = U32(32768, 37)
    /\ swapchain_formats.formats[1] = U32(0, 157)

\* C17: when no enumerated code maps through both tables (the empty list
\* included), XRSwapchain::new panics and create_swapchain is not called;
\* when some code maps, the unmapped codes of the list do not make it panic.
C17_PanicsIffNothingMaps ==
    \A n \in 1..Len(format_log) :
       swapchain_formats.ok
       => /\ MappablePositions = {}
             => /\ format_log[n].status = "panicked"
                /\ format_log[n].create_swapchain = None
          /\ MappablePositions # {}
             => /\ format_log[n].status = "created"
                /\ format_log[n].create_swapchain # None

C17_Witness ==
    /\ format_log # <<>>
    /\ swapchain_formats.ok
    /\ Len(swapchain_formats.formats) = 2
    /\ MappablePositions = {}
    /\ format_log[1].status = "panicked"

\* The event kinds that C25 lists: every kind but SessionStateChanged and
\* InstanceLossPending.
IgnoredKinds == OtherEventKinds \ {"InstanceLossPending"}

\* every poll result waiting in the runtime's queue is an event of an
\* ignored kind, and there is at least one
OnlyIgnoredQueued ==
    /\ xr_event_queue # <<>>
    /\ \A i \in 1..Len(xr_event_queue) :
          xr_event_queue[i].kind \in IgnoredKinds

\* C25: a poll whose events are all of the ignored kinds (EventsLost,
\* ReferenceSpaceChangePending, PerfSettings, VisibilityMaskChanged,
\* InteractionProfileChanged, MainSessionVisibilityChanged, unknown) leaves
\* session_state and previous_frame_state as they were, calls neither
\* session.begin nor session.end, and returns None.
C25_IgnoredEventsChangeNothing ==
    [][(OnlyIgnoredQueued /\ poll_call'.status # "none")
       => /\ poll_call'.batch = xr_event_queue
          /\ xr_event_queue' = <<>>
          /\ session_state' = session_state
          /\ previous_frame_state' = previous_frame_state
          /\ poll_call'.xr_calls = <<>>
          /\ poll_call'.status = "returned"
          /\ poll_call'.result = None]_vars

C25_Witness ==
    /\ PollReturned
    /\ Len(PollConsumed) = 2
    /\ \A i \in 1..2 : PollConsumed[i].kind \in IgnoredKinds
    /\ PollConsumed[1].kind = "EventsLost"
    /\ session_state = "RunningFocused"
    /\ previous_frame_state = "Running"

\* The poll met a failure of instance.poll_event: the last result it took
\* from the queue is the error.
PollMetError ==
    /\ poll_call.status # "none"
    /\ PollConsumed # <<>>
    /\ PollConsumed[Len(PollConsumed)].kind = "PollError"

\* C27: a handle_openxr_events call that meets a failed poll_event panics:
\* it returns neither None nor Some; and a call that returns has met none.
C27_FailedPollIsFatal ==
    /\ PollMetError => poll_call.status = "panicked"
    /\ PollReturned
       => \A i \in 1..Len(PollConsumed) : PollConsumed[i].kind # "PollError"

C27_Witness ==
    /\ PollMetError
    /\ Len(PollConsumed) = 2
    /\ PollConsumed[1] = SessionStateChanged("READY", TRUE)
    /\ poll_call.status = "panicked"

\* C29: xr_images_held counts the acquire_image calls made so far less the
\* release_image calls, so it never falls below zero; an operation calls
\* release_image at most once, and only a finalize_update that found a
\* stored FrameState and waited = true does, waited being true only while
\* an acquired image is unreleased.
C29_ReleasesNeverExceedAcquires ==
    /\ xr_images_held >= 0
    /\ waited => xr_images_held >= 1
    /\ Cardinality(XrCallsNamed("release_image")) <= 1
    /\ XrCallsNamed("release_image") # {} => FinalizedLiveFrame
    /\ XrCallsNamed("acquire_image") # {}
       => frame_call.op = "get_next_swapchain_image_index"

\* a finalize_update released one of two acquired images
C29_Witness ==
    /\ FinalizedLiveFrame
    /\ XrCallsNamed("release_image") # {}
    /\ xr_images_held = 1
    /\ ~waited

\* the get_next_swapchain_image_index calls of the current tick
AcquiredInTick ==
    {i \in 1..Len(tick_ops) : tick_ops[i] = "get_next_swapchain_image_index"}

\* pre_render_system has run in the current tick
PreRenderDone ==
    \/ stage \in {"Render", "PostRender"}
    \/ stage = "PreUpdate" /\ "finalize_update" \in OpsOfTick

\* C23: a tick acquires the swapchain image once if the prepare_update of
\* pre_render_system returned Running and not at all otherwise, and once
\* pre_render_system has run wgpu_render_state.should_render is true exactly
\* if the tick acquired an image.
C23_AcquiredOnceIffRunning ==
    /\ Cardinality(AcquiredInTick) <= 1
    /\ frame_call.op = "pre_render_system"
       => (AcquiredInTick # {} <=> frame_call.state = "Running")
    /\ PreRenderDone => (should_render <=> AcquiredInTick # {})
    /\ ~PreRenderDone => AcquiredInTick = {}

\* after earlier frames were waited for, a tick whose prepare_update returned
\* Paused acquired no image and does not render
C23_Witness ==
    /\ frame_call.op = "pre_render_system"
    /\ frame_call.state = "Paused"
    /\ ~should_render
    /\ AcquiredInTick = {}
    /\ xr_time > 2

\* openxr_event_system has just run its poll, and the poll returned.
PolledInTick == poll_call.status \in {"returned", "returned_exit"}

\* C24: an update in which handle_openxr_events returns Some(s) adds exactly
\* s, the derived state the poll ended in, to Events<XRState>, and one in
\* which it returns None adds nothing; what a reader finds is what the update
\* before sent followed by what this one sent, so the states are published in
\* the order of the ticks, one at most per tick, and no other system
\* publishes a state.
C24_OneStatePublishedPerChangedTick ==
    /\ [](Len(state_events[1]) <= 1 /\ Len(state_events[2]) <= 1)
    /\ [][(poll_call'.status \in {"returned", "returned_exit"})
          => /\ state_events' = <<state_events[2], poll_call'.result>>
             /\ poll_call'.result # None
                => poll_call'.result[1] = session_state']_vars
    /\ [][poll_call'.status = "none" => state_events' = state_events]_vars

\* the first update published Running; the second took two state changes in
\* one poll and published RunningFocused only
C24_Witness ==
    /\ PolledInTick
    /\ poll_call.batch = <<SessionStateChanged("STOPPING", TRUE),
                           SessionStateChanged("FOCUSED", TRUE)>>
    /\ xr_event_queue = <<>>
    /\ EventsRead(state_events) = <<"Running", "RunningFocused">>

\* The states of XRState that C26 lists.
ProducedStates == {"Paused", "Running", "RunningFocused", "Exiting"}

\* C26: session_state, previous_frame_state, the state a handle_openxr_events
\* call returns, the state prepare_update returns to pre_render_system and
\* every published state are among Paused, Running, RunningFocused and
\* Exiting: none is SkipFrame.
C26_SkipFrameIsNeverProduced ==
    /\ session_state \in ProducedStates
    /\ previous_frame_state \in ProducedStates
    /\ poll_call.result # None => poll_call.result[1] \in ProducedStates
    /\ frame_call.op = "pre_render_system"
       => frame_call.state \in ProducedStates
    /\ \A i \in 1..Len(EventsRead(state_events)) :
          EventsRead(state_events)[i] \in ProducedStates

\* a frame the runtime did not want rendered: prepare_update returned Paused
\* while the session is focused
C26_Witness ==
    /\ frame_call.op = "pre_render_system"
    /\ frame_call.state = "Paused"
    /\ session_state = "RunningFocused"
    /\ xr_time > 1

\* the calls alternate, starting with end if the session runs and with begin
\* if it does not
RECURSIVE CallsAlternate(_, _)
CallsAlternate(running, calls) ==
    \/ calls = <<>>
    \/ /\ Head(calls) = (IF running THEN "end" ELSE "begin")
       /\ CallsAlternate(~running, Tail(calls))

\* how many of the events the poll took report session state s
ConsumedStates(s) ==
    Cardinality({i \in 1..Len(PollConsumed) :
                    /\ PollConsumed[i].kind = "SessionStateChanged"
                    /\ PollConsumed[i].state = s})

\* how many calls of the method the poll made on the session
SessionCalls(method) ==
    Cardinality({i \in 1..Len(poll_call.xr_calls) :
                    poll_call.xr_calls[i] = method})

\* C30: while the runtime reports the session states in the order of the
\* lifecycle, each poll calls session.begin once per READY it takes and
\* session.end once per STOPPING, the calls alternate from one poll to the
\* next, the first being a begin, and is_running() holds only while the
\* session is begun and not ended.
C30_BeginAndEndAlternate ==
    /\ [](is_running(session_state) => xr_session_running)
    /\ [](poll_call.status # "none"
          => /\ SessionCalls("begin") = ConsumedStates("READY")
             /\ SessionCalls("end") = ConsumedStates("STOPPING")
             /\ Len(poll_call.xr_calls)
                = SessionCalls("begin") + SessionCalls("end"))
    /\ [][poll_call'.status # "none"
          => CallsAlternate(xr_session_running, poll_call'.xr_calls)]_vars

\* the session ran and one poll ended it: end was called, the derived state
\* left Running
C30_Witness ==
    /\ poll_call.status = "returned"
    /\ poll_call.batch = <<SessionStateChanged("STOPPING", TRUE),
                           SessionStateChanged("IDLE", TRUE)>>
    /\ xr_event_queue = <<>>
    /\ poll_call.start_state = "Running"
    /\ poll_call.xr_calls = <<"end">>
    /\ ~xr_session_running
    /\ ~is_running(session_state)

\* the textures that node n created and that were not removed
LiveTextures(n) == {t \in textures : t.node = n}

\* the update that has just run found a reported surface that differs from
\* the one the node stored
UpdatedToNewSurface ==
    /\ update_call.node # "-"
    /\ update_call.reported # None
    /\ update_call.reported # update_call.start_last_view_surface

\* C21: an update that finds a reported surface different from the stored
\* one removes the texture of the output slot, if there is one, and only then
\* creates the replacement, with the reported width and height and 2 array
\* layers, and puts it in the slot; any other update calls nothing.  So each
\* node has at most one live texture, the one in its output slot, of the
\* size of the surface the node stored.
C21_OneLiveTexturePerSlot ==
    /\ \A n \in Nodes :
          /\ Cardinality(LiveTextures(n)) <= 1
          /\ IF output_slots[n] = None
             THEN LiveTextures(n) = {} /\ node_last_view_surface[n] = None
             ELSE /\ node_last_view_surface[n] # None
                  /\ descriptor[n] =
                        Extent3d(node_last_view_surface[n][1].width,
                                 node_last_view_surface[n][1].height, 2)
                  /\ LiveTextures(n) =
                        {[texture |-> output_slots[n][1], node |-> n,
                          size |-> descriptor[n]]}
    /\ update_call.node # "-"
       => IF UpdatedToNewSurface
          THEN update_call.calls =
                  (IF update_call.start_output # None
                   THEN <<RemoveTexture(update_call.start_output[1])>>
                   ELSE <<>>)
                  \o <<CreateTexture(
                          output_slots[update_call.node][1],
                          Extent3d(update_call.reported[1].width,
                                   update_call.reported[1].height, 2))>>
          ELSE update_call.calls = <<>>

\* both nodes were resized from 800x600 to 1024x1024: the second resize of a
\* node removed its 800x600 texture and created the 1024x1024 one
C21_Witness ==
    /\ UpdatedToNewSurface
    /\ update_call.start_last_view_surface
          = Some(XRViewSurfaceCreated(800, 600))
    /\ update_call.reported = Some(XRViewSurfaceCreated(1024, 1024))
    /\ Len(update_call.calls) = 2
    /\ textures_created = 4
    /\ Cardinality(textures) = 2
    /\ \A n \in Nodes : descriptor[n] = Extent3d(1024, 1024, 2)

\* an AppExit has been sent and is in Events<AppExit>
AppExitSent == app_exit_events[1] # <<>> \/ app_exit_events[2] # <<>>

\* C22: the runner looks for an AppExit before every update: an update is
\* run only from a state in which none has been sent, so none runs after the
\* runner found one; destroy has been called once when xr_runner has
\* returned and not at all before; and once an AppExit is sent the runner
\* finds it, calls destroy and returns.
C22_ExitIsObservedAndDestroyCalledOnce ==
    /\ [](runner_pc = "update" => ~AppExitSent)
    /\ [](destroy_calls = (IF runner_pc = "returned" THEN 1 ELSE 0))
    /\ [][frame' # frame => runner_pc = "update" /\ ~AppExitSent]_vars
    /\ [][runner_pc = "break" => frame' = frame]_vars
    /\ (AppExitSent ~> (runner_pc = "returned" /\ destroy_calls = 1))

\* the third update sent AppExit; the runner found it at the top of the
\* loop, called destroy and returned
C22_Witness ==
    /\ runner_pc = "returned"
    /\ destroy_calls = 1
    /\ frame = 3
    /\ app_exit_events = <<(<<>>), <<"AppExit">>>>

\* hand_system has just run
HandSystemRan == hand_call.op = "hand_system"

\* C28: when hand_system has run with hand_tracking_state.visible true,
\* left_visible holds exactly if HandPoseState.left is present and
\* right_visible exactly if HandPoseState.right is; when it has run with
\* visible false, the HandTrackingState and every joint box, Transform and
\* visibility, are as they were.
C28_HandFlagsFollowPose ==
    HandSystemRan
    => IF hand_call.start_state.visible
       THEN /\ hand_tracking_state.left_visible <=> hand_pose.left # None
            /\ hand_tracking_state.right_visible <=> hand_pose.right # None
            /\ hand_tracking_state.visible
       ELSE /\ hand_tracking_state = hand_call.start_state
            /\ hand_boxes = hand_call.start_boxes

\* both hands were shown; the sample has the left hand only: the right
\* hand's flag fell, the left one stayed
C28_Witness ==
    /\ HandSystemRan
    /\ hand_call.start_state = HandTrackingState(FALSE, TRUE, TRUE, TRUE)
    /\ hand_pose.left # None
    /\ hand_pose.right = None
    /\ hand_tracking_state = HandTrackingState(FALSE, TRUE, TRUE, FALSE)
    /\ hand_boxes["left"][0].transform = JointTransform(hand_pose.left[1], 0)

\* C39: previous_frame_state is written only by a change of session_state
\* and then holds the state left: either both slots still hold Paused, the
\* value of construction, or the two differ; and a poll that returns None,
\* no change having happened, leaves the slot as it was.
C39_PreviousStateDiffersOnceChanged ==
    /\ [](\/ session_state = "Paused" /\ previous_frame_state = "Paused"
          \/ previous_frame_state # session_state)
    /\ [][(poll_call'.status \in {"returned", "returned_exit"}
           /\ poll_call'.result = None)
          => /\ previous_frame_state' = previous_frame_state
             /\ session_state' = session_state]_vars

\* a poll went from Running through RunningFocused to Exiting: the slot
\* holds RunningFocused, the state left last
C39_Witness ==
    /\ poll_call.status = "returned_exit"
    /\ poll_call.start_state = "Running"
    /\ Len(PollConsumed) = 2
    /\ previous_frame_state = "RunningFocused"
    /\ session_state = "Exiting"

\* the state left by the last of the events es that changes the derived
\* state, by the table, from cur; prev if none of them does
RECURSIVE TablePrevious(_, _, _)
TablePrevious(prev, cur, es) ==
    IF es = <<>> THEN prev
    ELSE LET next == TableDerived(Head(es), cur)
         IN  TablePrevious(IF next # cur THEN cur ELSE prev, next, Tail(es))
\* C31: the early return on Exiting only defers what is queued behind the
\* exit event.  The call that follows one that returned on Exiting starts
\* from Exiting with exactly the events left, takes them from the front in
\* their order, and leaves the state the transition table gives for them;
\* and a call that starts in Exiting and ends on a FOCUSED, VISIBLE,
\* SYNCHRONIZED, READY, IDLE or STOPPING event does not end in Exiting.
C31_ExitOnlyDefersTheRest ==
    /\ []((/\ PollReturned
           /\ poll_call.start_state = "Exiting"
           /\ PollConsumed # <<>>
           /\ ~IsExitEvent(PollConsumed[Len(PollConsumed)]))
          => /\ session_state # "Exiting"
             /\ session_state
                   = TableDerived(PollConsumed[Len(PollConsumed)], "Exiting"))
    /\ [][(poll_call.status = "returned_exit" /\ poll_call'.status # "none")
          => /\ poll_call'.start_state = "Exiting"
             /\ poll_call'.batch = xr_event_queue
             /\ xr_event_queue = PollConsumed' \o xr_event_queue'
             /\ session_state' = TableFold("Exiting", PollProcessed')
             /\ previous_frame_state'
                   = TablePrevious(previous_frame_state, "Exiting",
                                   PollProcessed')]_vars

\* EXITING, FOCUSED and IDLE were queued; the first call returned on
\* EXITING, and the next one has taken FOCUSED and then IDLE: the state is
\* Paused, reached from RunningFocused
C31_Witness ==
    /\ poll_call.status = "returned"
    /\ poll_call.start_state = "Exiting"
    /\ poll_call.batch = <<SessionStateChanged("FOCUSED", TRUE),
                           SessionStateChanged("IDLE", TRUE)>>
    /\ xr_event_queue = <<>>
    /\ session_state = "Paused"
    /\ previous_frame_state = "RunningFocused"

\* the call under way, or the one that ended last, run in one piece
PollInOnePiece ==
    PollLoop([session_state |-> poll_call.start_state,
              previous_frame_state |-> "Paused",
              state_changed |-> FALSE,
              ctl |-> "continue",
              xr_calls |-> <<>>],
             poll_call.batch)

PollEnded == poll_call.status \in {"returned", "returned_exit", "panicked"}

\* C32: handle_openxr_events terminates on every finite queue.  A call
\* under way ends; each pass of its loop takes exactly the head of the
\* queue, so what it has consumed is a prefix of the queue it found, each
\* event once and in order; it returns after the loop only with the queue
\* empty, and early only on an exit event, which no pass before the last
\* has met; and what it leaves is what the loop run in one piece gives.
C32_PollTerminates ==
    /\ (poll_call.status = "polling") ~> PollEnded
    /\ [](poll_call.status # "none"
          => /\ poll_call.batch = PollConsumed \o xr_event_queue
             /\ \A k \in 1..(Len(PollConsumed) - 1) :
                    ~IsExitEvent(PollConsumed[k])
             /\ poll_call.status = "polling"
                   => \A k \in 1..Len(PollConsumed) :
                          ~IsExitEvent(PollConsumed[k])
             /\ poll_call.status = "returned" => xr_event_queue = <<>>
             /\ poll_call.status = "returned_exit"
                   => /\ PollConsumed # <<>>
                      /\ IsExitEvent(PollConsumed[Len(PollConsumed)])
             /\ PollEnded
                   => /\ xr_event_queue = PollInOnePiece.queue
                      /\ session_state = PollInOnePiece.m.session_state
                      /\ poll_call.xr_calls = PollInOnePiece.m.xr_calls)
    /\ [][poll_call.status = "polling"
          => \/ /\ xr_event_queue # <<>>
                /\ xr_event_queue' = Tail(xr_event_queue)
             \/ /\ xr_event_queue = <<>>
                /\ xr_event_queue' = <<>>
                /\ poll_call'.status = "returned"]_vars

\* a call found two events that change nothing queued, has taken both in
\* two passes and returned after the loop
C32_Witness ==
    /\ poll_call.status = "returned"
    /\ Len(poll_call.batch) = 2
    /\ ~IsExitEvent(poll_call.batch[1])
    /\ poll_call.batch[2] = OtherEvent("EventsLost")
    /\ xr_event_queue = <<>>

\* C33: when get_hand_positions gives None, openxr_event_system leaves the
\* HandPoseState resource as it found it, so the poses of an earlier tick
\* stay published; and it gives None exactly when there is no live
\* FrameState at that point or the hand trackers are disabled.
C33_NoSampleKeepsPublishedPose ==
    /\ (sys_call.status = "returned" /\ sys_call.sample = None)
       => hand_pose = sys_call.start_hand_pose
    /\ (/\ sys_call.status = "returned"
        /\ tick_ops # <<>>
        /\ tick_ops[Len(tick_ops)] = "get_view_positions")
       => (sys_call.sample = None
           <=> (next_frame_state = None \/ ~hand_trackers))

\* the system has run with the trackers enabled and no live frame; the left
\* hand published by an earlier tick is still there
C33_Witness ==
    /\ sys_call.status = "returned"
    /\ sys_call.sample = None
    /\ hand_trackers
    /\ next_frame_state = None
    /\ tick_ops[Len(tick_ops)] = "get_view_positions"
    /\ sys_call.start_hand_pose.left # None
    /\ hand_pose.left # None

\* hand_visibility_system has just run
HandVisibilityRan == hand_call.op = "hand_visibility_system"

\* C34: after hand_visibility_system has read any sequence of XRState
\* events, over all its runs, visible holds exactly if the last event other
\* than SkipFrame was RunningFocused, and is false if there was none; a run
\* that reads SkipFrame events only leaves the HandTrackingState and the
\* boxes as they were.
C34_VisibleFollowsLastStateEvent ==
    /\ [](hand_tracking_state.visible
             <=> last_state_event = Some("RunningFocused"))
    /\ [][(/\ hand_call'.op = "hand_visibility_system"
           /\ \A i \in 1..Len(hand_call'.events) :
                 hand_call'.events[i] = "SkipFrame")
          => UNCHANGED <<hand_tracking_state, hand_boxes>>]_vars

\* RunningFocused was read by an earlier run and SkipFrame by the one that
\* has just run: the hands are still shown
C34_Witness ==
    /\ HandVisibilityRan
    /\ hand_call.events = <<"SkipFrame">>
    /\ last_state_event = Some("RunningFocused")
    /\ hand_tracking_state.visible
    /\ hand_boxes["left"][0].is_visible

\* C35: whatever the order in which hand_visibility_system and hand_system
\* run, neither left_visible nor right_visible is true while visible is
\* false.
C35_HandFlagsNeedVisible ==
    ~hand_tracking_state.visible
    => /\ ~hand_tracking_state.left_visible
       /\ ~hand_tracking_state.right_visible

\* hand_visibility_system has read Paused and hidden the hands, and
\* hand_system has then run with both hands in the sample: the flags are
\* down and the boxes hidden
C35_Witness ==
    /\ HandSystemRan
    /\ last_state_event = Some("Paused")
    /\ hand_pose.left # None
    /\ hand_pose.right # None
    /\ hand_tracking_state = HandTrackingState(FALSE, FALSE, FALSE, FALSE)
    /\ ~hand_boxes["left"][0].is_visible

\* C38: an update that finds the reported surface equal to the one the node
\* stored, or none reported yet, calls neither create_texture nor
\* remove_texture and leaves the output slot, the stored surface and the
\* descriptor of every node, and the textures, as they were; so an update
\* that follows an update of the same node changes nothing.
C38_UpdateIsIdempotent ==
    /\ [][\A n \in Nodes :
            (/\ update_call'.node = n
             /\ \/ last_view_surface = node_last_view_surface[n]
                \/ last_view_surface = None)
            => /\ update_call'.calls = <<>>
               /\ UNCHANGED <<node_last_view_surface, descriptor,
                              output_slots, textures, textures_created>>]_vars
    /\ [][(update_call.node # "-" /\ update_call'.node = update_call.node)
          => /\ update_call'.calls = <<>>
             /\ UNCHANGED <<node_last_view_surface, descriptor,
                            output_slots, textures, textures_created>>]_vars

\* a node holding the texture of the 1024x1024 surface has been updated
\* again with that surface reported: nothing was called, the texture is
\* still in its slot
C38_Witness ==
    /\ update_call.node # "-"
    /\ update_call.reported = Some(XRViewSurfaceCreated(1024, 1024))
    /\ update_call.start_last_view_surface = update_call.reported
    /\ update_call.calls = <<>>
    /\ update_call.start_output # None
    /\ output_slots[update_call.node] = update_call.start_output
    /\ descriptor[update_call.node] = Extent3d(1024, 1024, 2)

\* the u32 code is not zero and below NUM_FORMATS
CodeInTable(f) == f[1] = 0 /\ f[2] # 0 /\ f[2] < NUM_FORMATS

\* C37: the code handed to create_swapchain is the enumerated code of the
\* selected entry, bit for bit: the cast of a u32 code to the i32 of
\* vk::Format and back gives the code again; and map_vk_format maps a code
\* exactly if its value is not zero and below NUM_FORMATS, so zero, a code
\* that is negative as an i32 and a code of NUM_FORMATS or more are not
\* mapped, and the selected code is never one of those.
C37_SelectedCodeIsPassedUnchanged ==
    /\ \A k \in 1..Len(swapchain_formats.formats) :
          LET f == swapchain_formats.formats[k]
          IN /\ as_raw_u32(from_raw(f)) = f
             /\ map_vk_format(from_raw(f)) # None <=> CodeInTable(f)
             /\ from_raw(f) < 0 => map_vk_format(from_raw(f)) = None
    /\ \A n \in 1..Len(format_log) :
          format_log[n].status = "created"
          => LET f == swapchain_formats.formats[format_log[n].format[1].idx + 1]
             IN /\ format_log[n].create_swapchain[1].format = f
                /\ format_log[n].format[1].vk = from_raw(f)
                /\ CodeInTable(f)

\* the enumeration is UNDEFINED, a code with the top bit set and
\* B8G8R8A8_SRGB: the third was selected and handed on as it was
C37_Witness ==
    /\ format_log # <<>>
    /\ swapchain_formats.formats = <<U32(0, 0), U32(32768, 37), U32(0, 50)>>
    /\ format_log[1].status = "created"
    /\ format_log[1].format[1].idx = 2
    /\ format_log[1].create_swapchain[1].format = U32(0, 50)

\* the node's update has just run and returned
NodeUpdated == node_call.op = "update" /\ node_call.status = "returned"

====
